---- MODULE Spec2Model ----
(***************************************************************************)
(* Match-view derivation of the IOSCA hub match page                       *)
(* (src/frontend/assets/js/page-match.js, the third and current revision   *)
(* of the page script, lines 888-1673), and the live feed of the dashboard
   (src/frontend/assets/js/page-servers.js, lines 254-272).                *)
(*                                                                         *)
(* JavaScript values are modelled as follows.                              *)
(*   - An object is a function whose DOMAIN is the set of its own keys;    *)
(*     a key that is missing (undefined) is not in the DOMAIN.             *)
(*   - null is the one-field record null.                                  *)
(*   - An array is a sequence.                                             *)
(*   - Ratings and the rating formula are kept in thousandths (5.5 is      *)
(*     5500), counters and minutes are integers.  The arithmetic is exact: *)
(*     the value sets below never produce a raw rating on an exact x.x5    *)
(*     tie, which in the code is decided by binary rounding error.         *)
(***************************************************************************)
EXTENDS Integers, Sequences, FiniteSets, TLC

VARIABLES
    pc,      \* position of the page script: "input", "rated", "rendered", "failed"
    player,  \* the statistic row handed to playerRating10
    rating,  \* what playerRating10 returned for it
    data,    \* the decoded payload returned by HubApi.match
    view,    \* the values init derives from data before rendering
    feed,    \* the children of the dashboard's #liveFeed element, first to last
    received \* the messages the socket has delivered so far, oldest first

vars == <<pc, player, rating, data, view, feed, received>>

----------------------------------------------------------------------------
(* JavaScript object helpers *)

null == [null |-> TRUE]

EmptyObj == [k \in {} |-> 0]

Has(o, k) == k \in DOMAIN o

Put(o, k, v) == [x \in (DOMAIN o) \cup {k} |-> IF x = k THEN v ELSE o[x]]

Min(S) == CHOOSE x \in S : \A y \in S : x <= y

Max(S) == CHOOSE x \in S : \A y \in S : x >= y

SeqToSet(s) == {s[i] : i \in 1..Len(s)}

\* a ?? b ?? ... over the keys, in order: <<value>> of the first key the
\* object has, <<>> when it has none of them.
FirstPresent(o, keys) ==
    LET here == {i \in 1..Len(keys) : Has(o, keys[i])}
    IN  IF here = {} THEN <<>> ELSE <<o[keys[Min(here)]]>>

----------------------------------------------------------------------------
(* Rating Engine *)

RatingKeys == <<"match_rating", "matchRating", "matched_rating", "_rating", "mvp_score", "score">>

toNum(value) == value

pickNum(p, keys) ==
    LET got == FirstPresent(p, keys)
    IN  IF got = <<>> THEN 0 ELSE toNum(got[1])

Clamp3to10(x) == IF x > 10000 THEN 10000 ELSE IF x < 3000 THEN 3000 ELSE x

\* Math.round(x * 10) / 10 on a value in thousandths (half rounds up).
RoundTenth(x) == ((x + 50) \div 100) * 100

RawRatingConcededAdds(p) ==
    5500
    + pickNum(p, <<"goals">>) * 1100
    + pickNum(p, <<"passes_completed", "passesCompleted">>) * 4
    + pickNum(p, <<"goals_conceded", "goalsConceded">>) * 50
    - pickNum(p, <<"goals">>) * 2200

RawRating(p) ==
    5500
    + pickNum(p, <<"goals">>) * 1100
    + pickNum(p, <<"assists">>) * 800
    + pickNum(p, <<"keeper_saves", "keeperSaves">>) * 240
    + pickNum(p, <<"interceptions">>) * 180
    + pickNum(p, <<"tackles", "sliding_tackles_completed", "slidingTacklesCompleted">>) * 140
    + pickNum(p, <<"chances_created", "chancesCreated">>) * 220
    + pickNum(p, <<"key_passes", "keyPasses">>) * 180
    + pickNum(p, <<"shots_on_goal", "shotsOnGoal">>) * 110
    + pickNum(p, <<"passes_completed", "passesCompleted">>) * 4
    - pickNum(p, <<"red_cards", "redCards">>) * 1900
    - pickNum(p, <<"yellow_cards", "yellowCards">>) * 350
    - pickNum(p, <<"own_goals", "ownGoals">>) * 1200
    - pickNum(p, <<"goals_conceded", "goalsConceded">>) * 50

\* Number(player && (match_rating ?? ... ?? score)): <<n>> when finite,
\* <<>> when NaN.  Number(null) is 0, Number(undefined) is NaN.
ProvidedRating(p) ==
    IF p = null THEN <<0>> ELSE FirstPresent(p, RatingKeys)

playerRating10Unrounded(p) ==
    LET provided == ProvidedRating(p)
    IN  IF provided # <<>> THEN Clamp3to10(provided[1]) ELSE Clamp3to10(RawRating(p))

playerRating10NoClamp(p) ==
    LET provided == ProvidedRating(p)
    IN  IF provided # <<>> THEN RoundTenth(provided[1]) ELSE RoundTenth(RawRating(p))

playerRating10(p) ==
    LET provided == ProvidedRating(p)
    IN  IF provided # <<>>
        THEN RoundTenth(Clamp3to10(provided[1]))
        ELSE RoundTenth(Clamp3to10(RawRating(p)))

----------------------------------------------------------------------------
(* Strings.  Position codes, names and map keys are atomic strings; the    *)
(* string functions the code applies to them are given by their value on   *)
(* the strings the model uses.  The game-type label is a sequence of       *)
(* one-character strings, so that includes() is a real substring search.  *)

toUpperCase(s) ==
    CASE s = "gk" -> "GK"
      [] s = "cf" -> "CF"
      [] s = " gk" -> " GK"
      [] s = "n/a" -> "N/A"
      [] OTHER -> s

trim(s) ==
    CASE s = " GK" -> "GK"
      [] s = " gk" -> "gk"
      [] OTHER -> s

toLowerCaseChar(c) ==
    CASE c = "V" -> "v"
      [] OTHER -> c

toLowerCase(cs) == [i \in 1..Len(cs) |-> toLowerCaseChar(cs[i])]

includes(cs, tok) ==
    \E off \in 0..(Len(cs) - Len(tok)) : \A j \in 1..Len(tok) : cs[off + j] = tok[j]

\* String(name || "").toLowerCase().replace(/[^a-z0-9]/g, "")
normName(name) ==
    CASE name = "Ana" -> "ana"
      [] name = "A.na" -> "ana"
      [] name = "Bo" -> "bo"
      [] name = "Cy" -> "cy"
      [] name = "Dee" -> "dee"
      [] name = "Eli" -> "eli"
      [] name = "Fay" -> "fay"
      [] name = "Gus" -> "gus"
      [] name = "Unknown" -> "unknown"
      [] name = "-" -> ""
      [] OTHER -> name

\* a.localeCompare(b) orders the names the model uses as this rank does
\* (punctuation before digits before letters, lower case before upper).
CollationRank(name) ==
    CASE name = "" -> 0
      [] name = "-" -> 1
      [] name = "76561" -> 2
      [] name = "A.na" -> 3
      [] name = "ana" -> 4
      [] name = "Ana" -> 5
      [] name = "Bo" -> 6
      [] name = "Cy" -> 7
      [] name = "Unknown" -> 8
      [] OTHER -> 9

localeCompare(a, b) == CollationRank(a) - CollationRank(b)

\* a || b || ... over the keys, for string fields: the first key whose
\* value is a non-empty string, else the default.
FirstTruthy(o, keys, default) ==
    LET here == {i \in 1..Len(keys) : Has(o, keys[i]) /\ o[keys[i]] # ""}
    IN  IF here = {} THEN default ELSE o[keys[Min(here)]]

\* Boolean(v) of a JSON scalar given by its literal text.
Boolean(v) == v \notin {"false", "null", "0", "\"\""}

safeName(p) == FirstTruthy(p, <<"player_name", "steam_id">>, "Unknown")

----------------------------------------------------------------------------
(* Lineup Parser *)

parseLineupItemTuplesOnly(item) ==
    IF item.kind = "array" /\ Len(item.elems) >= 3
    THEN <<[pos |-> toUpperCase(item.elems[1]),
            name |-> IF item.elems[2] # "" THEN item.elems[2]
                     ELSE IF item.elems[3] # "" THEN item.elems[3] ELSE "-",
            steamId |-> item.elems[3],
            started |-> TRUE]>>
    ELSE <<>>

\* A raw lineup element is [kind |-> "array", elems |-> <<...>>] for a
\* tuple, [kind |-> "object", obj |-> o] for a record, and
\* [kind |-> "other"] for null or a scalar.
parseLineupItem(item) ==
    IF item.kind = "array" /\ Len(item.elems) >= 3
    THEN <<[pos |-> toUpperCase(item.elems[1]),
            name |-> IF item.elems[2] # "" THEN item.elems[2]
                     ELSE IF item.elems[3] # "" THEN item.elems[3] ELSE "-",
            steamId |-> item.elems[3],
            started |-> IF Len(item.elems) >= 4 THEN Boolean(item.elems[4]) ELSE TRUE]>>
    ELSE IF item.kind = "other" THEN <<>>
    ELSE LET o == IF item.kind = "array" THEN EmptyObj ELSE item.obj
             pos == toUpperCase(FirstTruthy(o, <<"position", "pos", "slot">>, ""))
         IN  IF pos = "" THEN <<>>
             ELSE <<[pos |-> pos,
                     name |-> FirstTruthy(o, <<"name", "player_name", "discord_name", "player", "steam_id">>, "-"),
                     steamId |-> FirstTruthy(o, <<"steam_id", "steamId">>, ""),
                     started |-> IF Has(o, "started") THEN Boolean(o.started) ELSE TRUE]>>

RECURSIVE parseLineupEntries(_)
parseLineupEntries(lineupData) ==
    IF lineupData = <<>> THEN <<>>
    ELSE parseLineupItem(Head(lineupData)) \o parseLineupEntries(Tail(lineupData))

----------------------------------------------------------------------------
(* Formation Resolver *)

FORMATIONS ==
    [eight |-> <<[pos |-> "LW", x |-> 16, y |-> 18], [pos |-> "CF", x |-> 50, y |-> 18],
                 [pos |-> "RW", x |-> 84, y |-> 18], [pos |-> "CM", x |-> 50, y |-> 39],
                 [pos |-> "LB", x |-> 16, y |-> 62], [pos |-> "CB", x |-> 50, y |-> 62],
                 [pos |-> "RB", x |-> 84, y |-> 62], [pos |-> "GK", x |-> 50, y |-> 86]>>,
     six |-> <<[pos |-> "LW", x |-> 22, y |-> 22], [pos |-> "RW", x |-> 78, y |-> 22],
               [pos |-> "CM", x |-> 50, y |-> 42], [pos |-> "LB", x |-> 22, y |-> 64],
               [pos |-> "RB", x |-> 78, y |-> 64], [pos |-> "GK", x |-> 50, y |-> 86]>>,
     five |-> <<[pos |-> "CF", x |-> 50, y |-> 21], [pos |-> "LM", x |-> 22, y |-> 42],
                [pos |-> "RM", x |-> 78, y |-> 42], [pos |-> "CB", x |-> 50, y |-> 64],
                [pos |-> "GK", x |-> 50, y |-> 86]>>]

normalizeLineupPos(value) == trim(toUpperCase(value))

\* "" stands for the null the code returns.
formationFromGameType(gameType) ==
    LET raw == toLowerCase(gameType)
    IN  IF raw = <<>> THEN ""
        ELSE IF includes(raw, <<"8", "v", "8">>) THEN "eight"
        ELSE IF includes(raw, <<"6", "v", "6">>) THEN "six"
        ELSE IF includes(raw, <<"5", "v", "5">>) THEN "five"
        ELSE ""

startedEntries(entries) == SelectSeq(entries, LAMBDA e : e.started # FALSE)

detectFormation(entries, gameType) ==
    LET byType == formationFromGameType(gameType)
        started == startedEntries(entries)
        positions == {normalizeLineupPos(started[i].pos) : i \in 1..Len(started)}
    IN  IF byType # "" THEN byType
        ELSE IF {"CF", "LM", "RM", "CB", "GK"} \subseteq positions THEN "five"
        ELSE IF {"LW", "RW", "CM", "LB", "RB", "GK"} \subseteq positions /\ "CF" \notin positions
             THEN "six"
        ELSE IF Len(started) <= 5 THEN "five"
        ELSE IF Len(started) <= 6 THEN "six"
        ELSE "eight"

\* started.findIndex(...): the least index among the candidates, 0 for the
\* code's -1 (indices are 1-based here).
findIndex(cand) == IF cand = {} THEN 0 ELSE Min(cand)

strictPassSkipped(slots, started, i, acc) == acc

\* Pass 1 (strict position mapping), slots i..Len(slots); acc holds
\* usedIndex and, per slot, the index of the bound entry (0: still null).
RECURSIVE strictPass(_, _, _, _)
strictPass(slots, started, i, acc) ==
    IF i > Len(slots) THEN acc
    ELSE LET expectedPos == normalizeLineupPos(slots[i].pos)
             matchIndex == findIndex({idx \in 1..Len(started) :
                                idx \notin acc.usedIndex /\ started[idx].pos = expectedPos})
         IN  IF matchIndex > 0
             THEN strictPass(slots, started, i + 1,
                      [usedIndex |-> acc.usedIndex \cup {matchIndex},
                       slotIndex |-> [acc.slotIndex EXCEPT ![i] = matchIndex]])
             ELSE strictPass(slots, started, i + 1, acc)

fallbackCandidatesAny(started, acc) == 1..Len(started)

fallbackCandidates(started, acc) == {idx \in 1..Len(started) : idx \notin acc.usedIndex}

fallbackPassSkipped(slots, started, i, acc) == acc

\* Pass 2 (leftover starters fill the slots still empty).
RECURSIVE fallbackPass(_, _, _, _)
fallbackPass(slots, started, i, acc) ==
    IF i > Len(slots) THEN acc
    ELSE IF acc.slotIndex[i] # 0 THEN fallbackPass(slots, started, i + 1, acc)
    ELSE LET fallbackIndex == findIndex(fallbackCandidates(started, acc))
         IN  IF fallbackIndex > 0
             THEN fallbackPass(slots, started, i + 1,
                      [usedIndex |-> acc.usedIndex \cup {fallbackIndex},
                       slotIndex |-> [acc.slotIndex EXCEPT ![i] = fallbackIndex]])
             ELSE fallbackPass(slots, started, i + 1, acc)

\* The formation part of lineupCardHtml: template, started copies, the slot
\* bindings (slotPlayers[i] is started[slotIndex[i]], null when 0) and the
\* overflow starters, as indices into started in their order.
lineupCard(entries, gameType) ==
    LET formationKey == detectFormation(entries, gameType)
        slots == FORMATIONS[formationKey]
        kept == startedEntries(entries)
        started == [i \in 1..Len(kept) |-> [kept[i] EXCEPT !.pos = normalizeLineupPos(@)]]
        p1 == strictPass(slots, started, 1,
                  [usedIndex |-> {}, slotIndex |-> [i \in 1..Len(slots) |-> 0]])
        p2 == fallbackPass(slots, started, 1, p1)
        idxs == [i \in 1..Len(started) |-> i]
    IN  [formationKey |-> formationKey,
         slots |-> slots,
         started |-> started,
         slotIndex |-> p2.slotIndex,
         usedIndex |-> p2.usedIndex,
         overflowStarters |-> SelectSeq(idxs, LAMBDA idx : idx \notin p2.usedIndex)]

----------------------------------------------------------------------------
(* Event Timeline Builder *)

\* A value that may arrive as an object or as a JSON string is modelled as
\* [enc |-> "object", val |-> v], [enc |-> "json", val |-> v] (the string
\* that decodes to v) or [enc |-> "garbage"] (a string JSON.parse rejects).
parseJsonValue(value, fallback) ==
    IF value.enc = "garbage" THEN fallback ELSE value.val

\* Ascending sequence of the elements of a finite set of integers.
RECURSIVE SortedSeq(_)
SortedSeq(S) == IF S = {} THEN <<>> ELSE <<Min(S)>> \o SortedSeq(S \ {Min(S)})

\* Math.max(1, Math.floor(n)) on an integer minute.
coerceMinute(n) == IF n < 1 THEN 1 ELSE n

parseMinutesAsGiven(raw) ==
    CASE raw.t = "array" -> [i \in 1..Len(raw.v) |-> raw.v[i]]
      [] raw.t = "number" -> <<raw.v>>
      [] OTHER -> <<>>

\* A raw minute value is [t |-> "array", v |-> <<n, ...>>], a single
\* [t |-> "number", v |-> n], [t |-> "text"] (a non-numeric scalar) or
\* [t |-> "null"]; a missing key is [t |-> "null"] as well.
parseMinutes(raw) ==
    CASE raw.t = "array" -> SortedSeq({coerceMinute(raw.v[i]) : i \in 1..Len(raw.v)})
      [] raw.t = "number" -> <<coerceMinute(raw.v)>>
      [] OTHER -> <<>>

getEventMap(p) ==
    LET got == FirstPresent(p, <<"event_timestamps", "eventTimestamps">>)
    IN  IF got = <<>> THEN EmptyObj ELSE parseJsonValue(got[1], EmptyObj)

\* String(k).toLowerCase().replace(/[^a-z0-9]/g, "") on a map key.
normKey(k) ==
    CASE k = "Goals" -> "goals"
      [] k = "Yellow_Card" -> "yellowcard"
      [] k = "yellow_card" -> "yellowcard"
      [] k = "yellow_cards" -> "yellowcards"
      [] k = "red_card" -> "redcard"
      [] k = "red_cards" -> "redcards"
      [] k = "straight_red" -> "straightred"
      [] OTHER -> k

\* The map keys the model uses have pairwise different normal forms, so
\* the insertion order of the normalized copy does not matter.
normalizedMap(eventMap) ==
    [nk \in {normKey(k) : k \in DOMAIN eventMap} |->
        eventMap[CHOOSE k \in DOMAIN eventMap : normKey(k) = nk]]

rawAt(m, k) == IF Has(m, k) THEN m[k] ELSE [t |-> "null"]

RECURSIVE getMinutes(_, _)
getMinutes(eventMap, keys) ==
    IF keys = <<>> THEN <<>>
    ELSE LET mins == parseMinutes(rawAt(eventMap, Head(keys)))
             nmins == parseMinutes(rawAt(normalizedMap(eventMap), normKey(Head(keys))))
         IN  IF mins # <<>> THEN mins
             ELSE IF nmins # <<>> THEN nmins
             ELSE getMinutes(eventMap, Tail(keys))

\* Number(a || b || 0) over counter fields: the first non-zero one.
firstNonZero(p, keys) ==
    LET here == {i \in 1..Len(keys) : Has(p, keys[i]) /\ p[keys[i]] # 0}
    IN  IF here = {} THEN 0 ELSE p[keys[Min(here)]]

EVENT_SENTINEL == 999

EVENT_CAP == 12

kindLinesBoth(kind, name, minutes, count, r) ==
    (IF minutes # <<>>
     THEN <<[kind |-> kind, name |-> name, minutes |-> minutes,
             sortMinute |-> minutes[1], rating |-> <<r>>]>>
     ELSE <<>>)
    \o (IF count > 0
        THEN <<[kind |-> kind, name |-> name, count |-> count,
                sortMinute |-> EVENT_SENTINEL, rating |-> <<r>>]>>
        ELSE <<>>)

kindLines(kind, name, minutes, count, r) ==
    IF minutes # <<>>
    THEN <<[kind |-> kind, name |-> name, minutes |-> minutes,
            sortMinute |-> minutes[1], rating |-> <<r>>]>>
    ELSE IF count > 0
    THEN <<[kind |-> kind, name |-> name, count |-> count,
            sortMinute |-> EVENT_SENTINEL, rating |-> <<r>>]>>
    ELSE <<>>

\* The body of the loop of buildEventLines for one (non-null) row.
rowLines(p) ==
    LET name == safeName(p)
        eventMap == getEventMap(p)
        r == playerRating10(p)
    IN  kindLines("goal", name, getMinutes(eventMap, <<"goal", "goals">>),
                  firstNonZero(p, <<"goals">>), r)
        \o kindLines("yellow", name,
                  getMinutes(eventMap, <<"yellow", "yellow_card", "yellow_cards">>),
                  firstNonZero(p, <<"yellow_cards", "yellowCards">>), r)
        \o kindLines("red", name,
                  getMinutes(eventMap, <<"red", "red_card", "red_cards", "redcard",
                                         "redcards", "straight_red">>),
                  firstNonZero(p, <<"red_cards", "redCards">>), r)

RECURSIVE allRowLines(_)
allRowLines(sideStats) ==
    IF sideStats = <<>> THEN <<>>
    ELSE rowLines(Head(sideStats)) \o allRowLines(Tail(sideStats))

sortKey(line) == IF line.sortMinute = 0 THEN EVENT_SENTINEL ELSE line.sortMinute

compareLinesByName(a, b) == localeCompare(a.name, b.name)

\* The comparator of lines.sort: negative when a goes before b.
compareLines(a, b) ==
    IF sortKey(a) - sortKey(b) # 0 THEN sortKey(a) - sortKey(b)
    ELSE localeCompare(a.name, b.name)

\* Array.prototype.sort is stable: insertion after the last element that
\* does not compare greater.
RECURSIVE insertLine(_, _)
insertLine(sorted, x) ==
    IF sorted = <<>> THEN <<x>>
    ELSE IF compareLines(x, Head(sorted)) < 0 THEN <<x>> \o sorted
    ELSE <<Head(sorted)>> \o insertLine(Tail(sorted), x)

RECURSIVE sortLines(_)
sortLines(lines) ==
    IF lines = <<>> THEN <<>>
    ELSE insertLine(sortLines(SubSeq(lines, 1, Len(lines) - 1)), lines[Len(lines)])

slice(seq, n) == SubSeq(seq, 1, IF Len(seq) < n THEN Len(seq) ELSE n)

\* player.goals on a null row is a TypeError.
buildEventLinesThrows(sideStats) == \E i \in 1..Len(sideStats) : sideStats[i] = null

buildEventLines(sideStats) == slice(sortLines(allRowLines(sideStats)), EVENT_CAP)

lastByNameRaw(sideStats, key) ==
    LET here == {i \in 1..Len(sideStats) : safeName(sideStats[i]) = key}
    IN  IF here = {} THEN <<>> ELSE <<sideStats[Max(here)]>>

\* byName.get(key): the last row with that normalized name, <<>> if none.
lastByName(sideStats, key) ==
    LET here == {i \in 1..Len(sideStats) : normName(safeName(sideStats[i])) = key}
    IN  IF here = {} THEN <<>> ELSE <<sideStats[Max(here)]>>

itemName(item) == IF Has(item, "name") THEN item.name ELSE ""

attachEventRatings(items, sideStats) ==
    [i \in 1..Len(items) |->
        LET linked == lastByName(sideStats, normName(itemName(items[i])))
        IN  Put(items[i], "rating",
                IF linked # <<>> /\ linked[1] # null
                THEN <<playerRating10(linked[1])>> ELSE <<>>)]

sideEventsMerged(apiEvents, sideStats) ==
    attachEventRatings(apiEvents \o buildEventLines(sideStats), sideStats)

\* init, lines 1582-1585: a non-empty provider list is used as it is.
sideEvents(apiEvents, sideStats) ==
    attachEventRatings(IF Len(apiEvents) > 0 THEN apiEvents ELSE buildEventLines(sideStats),
                       sideStats)

sideEventsThrows(apiEvents, sideStats) ==
    Len(apiEvents) = 0 /\ buildEventLinesThrows(sideStats)

----------------------------------------------------------------------------
(* Team metrics *)

\* String(player.status || "").toLowerCase()
statusOf(p) ==
    LET raw == IF Has(p, "status") THEN p.status ELSE ""
    IN  CASE raw = "Started" -> "started"
          [] OTHER -> raw

RECURSIVE SumSeq(_)
SumSeq(ns) == IF ns = <<>> THEN 0 ELSE Head(ns) + SumSeq(Tail(ns))

clutchOf(p) ==
    LET got == FirstPresent(p, <<"clutch_actions", "clutchActions">>)
    IN  IF got = <<>> THEN 0 ELSE Len(parseJsonValue(got[1], <<>>))

subImpactOf(p) ==
    LET got == FirstPresent(p, <<"sub_impact", "subImpact">>)
    IN  IF got = <<>> THEN EmptyObj ELSE parseJsonValue(got[1], EmptyObj)

subEventsOf(p) == IF Has(subImpactOf(p), "events") THEN Len(subImpactOf(p).events) ELSE 0

subSummary(p, k) ==
    IF Has(subImpactOf(p), "summary") /\ Has(subImpactOf(p).summary, k)
    THEN subImpactOf(p).summary[k] ELSE 0

subGoalsOf(p) == subSummary(p, "goals")

subOwnGoalsOf(p) == subSummary(p, "own_goals")

\* player.status on a null row is a TypeError.
teamDerivedMetricsThrows(sideStats) == \E i \in 1..Len(sideStats) : sideStats[i] = null

statusCount(sideStats, status) ==
    Cardinality({i \in 1..Len(sideStats) : statusOf(sideStats[i]) = status})

teamDerivedMetrics(sideStats) ==
    [starts |-> statusCount(sideStats, "started"),
     subs |-> statusCount(sideStats, "substitute"),
     bench |-> statusCount(sideStats, "on_bench"),
     clutch |-> SumSeq([i \in 1..Len(sideStats) |-> clutchOf(sideStats[i])]),
     subImpactEvents |-> SumSeq([i \in 1..Len(sideStats) |-> subEventsOf(sideStats[i])]),
     subGoals |-> SumSeq([i \in 1..Len(sideStats) |-> subGoalsOf(sideStats[i])]),
     subOwnGoals |-> SumSeq([i \in 1..Len(sideStats) |-> subOwnGoalsOf(sideStats[i])])]

----------------------------------------------------------------------------
(* MVP Resolver *)

\* { ...player }: the own fields of the row; spreading null gives {}.
spread(p) == IF p = null THEN EmptyObj ELSE p

\* Object.assign(target, source): the fields of source overwrite.
assign(target, source) ==
    [k \in (DOMAIN target) \cup (DOMAIN source) |->
        IF k \in DOMAIN source THEN source[k] ELSE target[k]]

tieBreakOf(p) ==
    pickNum(p, <<"goals">>) * 4
    + pickNum(p, <<"assists">>) * 3
    + pickNum(p, <<"interceptions">>)
    + pickNum(p, <<"keeper_saves", "keeperSaves">>)

scoreRowUnrounded(p) ==
    Put(Put(spread(p), "_rating", playerRating10Unrounded(p)), "_tieBreak", tieBreakOf(p))

scoreRow(p) == Put(Put(spread(p), "_rating", playerRating10(p)), "_tieBreak", tieBreakOf(p))

compareMvpByRatingOnly(a, b) == b["_rating"] - a["_rating"]

\* The comparator of the sort in computeMvp: negative when a goes first.
compareMvp(a, b) ==
    IF b["_rating"] - a["_rating"] # 0 THEN b["_rating"] - a["_rating"]
    ELSE b["_tieBreak"] - a["_tieBreak"]

RECURSIVE insertScored(_, _)
insertScored(sorted, x) ==
    IF sorted = <<>> THEN <<x>>
    ELSE IF compareMvp(x, Head(sorted)) < 0 THEN <<x>> \o sorted
    ELSE <<Head(sorted)>> \o insertScored(Tail(sorted), x)

RECURSIVE sortScored(_)
sortScored(scored) ==
    IF scored = <<>> THEN <<>>
    ELSE insertScored(sortScored(SubSeq(scored, 1, Len(scored) - 1)), scored[Len(scored)])

computeMvp(allStats) ==
    IF Len(allStats) = 0 THEN null
    ELSE Head(sortScored([i \in 1..Len(allStats) |-> scoreRow(allStats[i])]))

\* normName(o.player_name || o.name || "")
mvpNameOf(o) == normName(FirstTruthy(o, <<"player_name", "name">>, ""))

\* String(o.position || "").toUpperCase()
mvpPosOf(o) == toUpperCase(FirstTruthy(o, <<"position">>, ""))

mvpMatches(p, targetName, targetPos) ==
    /\ mvpNameOf(p) # ""
    /\ mvpNameOf(p) = targetName
    /\ (targetPos = "" \/ mvpPosOf(p) = targetPos)

findLinkedByNameOnly(allStats, apiMvp) ==
    LET here == {i \in 1..Len(allStats) :
                    allStats[i] # null /\ mvpMatches(allStats[i], mvpNameOf(apiMvp), "")}
    IN  IF mvpNameOf(apiMvp) = "" \/ here = {} THEN <<>> ELSE <<allStats[Min(here)]>>

\* allStats.find(...): <<row>> for the first match, <<>> for undefined.
findLinked(allStats, apiMvp) ==
    LET here == {i \in 1..Len(allStats) :
                    allStats[i] # null /\ mvpMatches(allStats[i], mvpNameOf(apiMvp), mvpPosOf(apiMvp))}
    IN  IF mvpNameOf(apiMvp) = "" \/ here = {} THEN <<>> ELSE <<allStats[Min(here)]>>

\* player.player_name on a null row is a TypeError: find reaches a null
\* row when no earlier row matches.
resolveMvpThrows(allStats, apiMvp) ==
    /\ apiMvp # null
    /\ mvpNameOf(apiMvp) # ""
    /\ \E i \in 1..Len(allStats) :
          /\ allStats[i] = null
          /\ \A j \in 1..(i - 1) :
                allStats[j] # null /\ ~mvpMatches(allStats[j], mvpNameOf(apiMvp), mvpPosOf(apiMvp))

mergedMvp(allStats, apiMvp) ==
    LET linked == findLinked(allStats, apiMvp)
        merged == IF linked # <<>> THEN assign(apiMvp, linked[1]) ELSE apiMvp
    IN  Put(merged, "_rating", playerRating10(merged))

resolveMvpTypeofOnly(allStats, apiMvp) == mergedMvp(allStats, spread(apiMvp))

resolveMvp(allStats, apiMvp) ==
    IF apiMvp # null THEN mergedMvp(allStats, apiMvp) ELSE computeMvp(allStats)

mvpIdentity(m) ==
    IF m = null THEN [steam |-> "", name |-> "", pos |-> ""]
    ELSE [steam |-> trim(FirstTruthy(m, <<"steam_id">>, "")),
          name |-> mvpNameOf(m),
          pos |-> trim(toUpperCase(FirstTruthy(m, <<"position">>, "")))]

----------------------------------------------------------------------------
(* The statistic lookup of one side and the MVP flag of a lineup slot *)

\* String(row.steam_id || "").trim()
steamKey(row) == trim(FirstTruthy(row, <<"steam_id">>, ""))

\* normName(row.player_name || "")
nameKey(row) == normName(FirstTruthy(row, <<"player_name">>, ""))

\* The two Maps, each key holding the last row set under it.
buildStatsLookup(sideStats) ==
    LET rows == 1..Len(sideStats)
    IN  [bySteam |-> [k \in {steamKey(sideStats[i]) : i \in rows} \ {""} |->
                         sideStats[Max({i \in rows : steamKey(sideStats[i]) = k})]],
         byName |-> [k \in {nameKey(sideStats[i]) : i \in rows} \ {""} |->
                        sideStats[Max({i \in rows : nameKey(sideStats[i]) = k})]]]

resolvePlayerStats(entry, lookup) ==
    LET steam == trim(entry.steamId)
        key == normName(entry.name)
    IN  IF steam # "" /\ steam \in DOMAIN lookup.bySteam THEN lookup.bySteam[steam]
        ELSE IF key # "" /\ key \in DOMAIN lookup.byName THEN lookup.byName[key]
        ELSE null

\* lineupCardHtml, lines 1399-1409: the flag of the slot that shows entry.
isMvp(entry, slot, stats, mvpKey) ==
    LET profileSteamId ==
            trim(IF entry.steamId # "" THEN entry.steamId
                 ELSE FirstTruthy(stats, <<"steam_id">>, ""))
        playerNameNorm ==
            normName(IF entry.name # "" THEN entry.name
                     ELSE FirstTruthy(stats, <<"player_name">>, ""))
        playerPos ==
            trim(toUpperCase(
                IF FirstTruthy(stats, <<"position">>, "") # ""
                THEN FirstTruthy(stats, <<"position">>, "")
                ELSE IF entry.pos # "" THEN entry.pos ELSE slot.pos))
    IN  \/ mvpKey.steam # "" /\ profileSteamId # "" /\ mvpKey.steam = profileSteamId
        \/ /\ mvpKey.name # "" /\ playerNameNorm # "" /\ mvpKey.name = playerNameNorm
           /\ (mvpKey.pos = "" \/ playerPos = "" \/ mvpKey.pos = playerPos)

\* The slots of one side's card that carry the MVP badge.
mvpSlots(card, lookup, mvpKey) ==
    {i \in 1..Len(card.slots) :
        /\ card.slotIndex[i] # 0
        /\ LET entry == card.started[card.slotIndex[i]]
           IN  isMvp(entry, card.slots[i], resolvePlayerStats(entry, lookup), mvpKey)}

----------------------------------------------------------------------------
(* init: the derivation pass over one payload *)

allStatsOf(d) == d.player_stats.home \o d.player_stats.away \o d.player_stats.neutral

\* row.steam_id on a null row is a TypeError.
buildStatsLookupThrows(sideStats) == \E i \in 1..Len(sideStats) : sideStats[i] = null

\* data.team_events && Array.isArray(data.team_events[side])
\*    ? data.team_events[side] : []
\* team_events has the key of a side when the provider supplies its list.
apiEvents(d, side) ==
    IF Has(d.team_events, side) THEN d.team_events[side] ELSE <<>>

initThrows(d) ==
    \/ sideEventsThrows(apiEvents(d, "home"), d.player_stats.home)
    \/ sideEventsThrows(apiEvents(d, "away"), d.player_stats.away)
    \/ teamDerivedMetricsThrows(d.player_stats.home)
    \/ teamDerivedMetricsThrows(d.player_stats.away)
    \/ buildStatsLookupThrows(d.player_stats.home)
    \/ buildStatsLookupThrows(d.player_stats.away)
    \/ resolveMvpThrows(allStatsOf(d), d.mvp)

derive(d) ==
    LET m == resolveMvp(allStatsOf(d), d.mvp)
        homeLineup == parseLineupEntries(d.match.home_lineup)
        awayLineup == parseLineupEntries(d.match.away_lineup)
        homeCard == lineupCard(homeLineup, d.match.game_type)
        awayCard == lineupCard(awayLineup, d.match.game_type)
    IN  [done |-> TRUE,
         homeEvents |-> sideEvents(apiEvents(d, "home"), d.player_stats.home),
         awayEvents |-> sideEvents(apiEvents(d, "away"), d.player_stats.away),
         homeDerived |-> teamDerivedMetrics(d.player_stats.home),
         awayDerived |-> teamDerivedMetrics(d.player_stats.away),
         homeLineup |-> homeLineup,
         awayLineup |-> awayLineup,
         mvp |-> m,
         mvpKey |-> mvpIdentity(m),
         homeCard |-> homeCard,
         awayCard |-> awayCard,
         homeMvpSlots |-> mvpSlots(homeCard, buildStatsLookup(d.player_stats.home), mvpIdentity(m)),
         awayMvpSlots |-> mvpSlots(awayCard, buildStatsLookup(d.player_stats.away), mvpIdentity(m))]

----------------------------------------------------------------------------
(* The writes of a derivation pass.  A reference names an object or array  *)
(* of the payload (space "in") or one the derivation created itself (space *)
(* "fresh"); a write is a property assignment on an object ("set", with    *)
(* the fields assigned) or an in-place push or sort of an array ("order",  *)
(* with the resulting elements).  The writes are listed statement by       *)
(* statement with the reference each one reaches, and the payload after    *)
(* the pass is the payload with the writes that reach it applied.          *)
(* Containers that never leave the function that creates them (the lines  *)
(* array of buildEventLines, the byName Map of attachEventRatings,         *)
(* usedIndex, the arrays of parseMinutes) are left out.                    *)

Ref(space, kind, side, i) == [space |-> space, kind |-> kind, side |-> side, i |-> i]

sameRef(ref) == ref

\* { ...x }: a new object holding the fields of x.
spreadRef(ref) == [ref EXCEPT !.space = "fresh"]

ObjWrite(target, fields) == [target |-> target, op |-> "set", fields |-> fields]

ArrWrite(target, elems) == [target |-> target, op |-> "order", elems |-> elems]

\* allStats = [...homeStats, ...awayStats, ...neutralStats]: a new array
\* whose elements are the rows of the payload themselves.
rowRef(d, j) ==
    LET h == Len(d.player_stats.home)
        a == Len(d.player_stats.away)
    IN  IF j <= h THEN Ref("in", "row", "home", j)
        ELSE IF j <= h + a THEN Ref("in", "row", "away", j - h)
        ELSE Ref("in", "row", "neutral", j - h - a)

\* items.map((item) => ({ ...item, rating })), rated being the array map
\* returns: the items are the lines of the provider when init passes its
\* list, else the lines buildEventLines created.
attachEventRatingsWrites(d, side, rated) ==
    LET supplied == Len(apiEvents(d, side)) > 0
    IN  [i \in 1..Len(rated) |->
            ObjWrite(spreadRef(Ref(IF supplied THEN "in" ELSE "fresh", "event", side, i)),
                     [rating |-> rated[i].rating])]

\* const out = {...}; out.starts += 1; ..., out being the object returned.
teamDerivedMetricsWrites(out, side) ==
    <<ObjWrite(Ref("fresh", "out", side, 0), out)>>

\* const entries = []; entries.push({ pos, name, steamId, started })
parseLineupEntriesWrites(entries, side) ==
    <<ArrWrite(Ref("fresh", "entries", side, 0), entries)>>

\* bySteam.set(...), byName.set(...) on the two new Maps
buildStatsLookupWrites(sideStats, side) ==
    <<ObjWrite(Ref("fresh", "lookup", side, 0), buildStatsLookup(sideStats))>>

\* allStats.map((player) => ({ ...player, _rating, _tieBreak })).sort(...)
computeMvpWrites(d) ==
    LET allStats == allStatsOf(d)
    IN  IF Len(allStats) = 0 THEN <<>>
        ELSE [j \in 1..Len(allStats) |->
                 ObjWrite(spreadRef(rowRef(d, j)),
                          Put(Put(EmptyObj, "_rating", playerRating10(allStats[j])),
                              "_tieBreak", tieBreakOf(allStats[j])))]
             \o <<ArrWrite(Ref("fresh", "scored", "", 0),
                           sortScored([j \in 1..Len(allStats) |-> scoreRow(allStats[j])]))>>

\* const merged = { ...apiMvp }; Object.assign(merged, linked);
\* merged._rating = playerRating10(merged), mvp being the object returned.
resolveMvpWrites(d, mvp) ==
    IF d.mvp = null THEN computeMvpWrites(d)
    ELSE LET merged == spreadRef(Ref("in", "mvp", "", 0))
             linked == findLinked(allStatsOf(d), d.mvp)
         IN  (IF linked # <<>> THEN <<ObjWrite(merged, linked[1])>> ELSE <<>>)
             \o <<ObjWrite(merged, Put(EmptyObj, "_rating", mvp["_rating"]))>>

\* entries.filter(...).map((entry) => ({ ...entry, pos })), the entries
\* being the objects parseLineupEntries created; slotPlayers[i] = ...
lineupCardWrites(entries, card, side) ==
    LET kept == {i \in 1..Len(entries) : entries[i].started # FALSE}
    IN  [n \in 1..Len(card.started) |->
            ObjWrite(spreadRef(Ref("fresh", "entry", side,
                                   Min({i \in kept : Cardinality({k \in kept : k <= i}) = n}))),
                     [pos |-> card.started[n].pos])]
        \o <<ArrWrite(Ref("fresh", "slotPlayers", side, 0), card.slotIndex)>>

\* The statements of init in their order, lines 1584-1666.
INIT_STEPS == 11

stepThrows(d, k) ==
    CASE k = 1 -> sideEventsThrows(apiEvents(d, "home"), d.player_stats.home)
      [] k = 2 -> sideEventsThrows(apiEvents(d, "away"), d.player_stats.away)
      [] k = 3 -> teamDerivedMetricsThrows(d.player_stats.home)
      [] k = 4 -> teamDerivedMetricsThrows(d.player_stats.away)
      [] k = 7 -> buildStatsLookupThrows(d.player_stats.home)
      [] k = 8 -> buildStatsLookupThrows(d.player_stats.away)
      [] k = 9 -> resolveMvpThrows(allStatsOf(d), d.mvp)
      [] OTHER -> FALSE

\* The writes of statement k, v holding the values the statements return.
stepWrites(d, v, k) ==
    CASE k = 1 -> attachEventRatingsWrites(d, "home", v.homeEvents)
      [] k = 2 -> attachEventRatingsWrites(d, "away", v.awayEvents)
      [] k = 3 -> teamDerivedMetricsWrites(v.homeDerived, "home")
      [] k = 4 -> teamDerivedMetricsWrites(v.awayDerived, "away")
      [] k = 5 -> parseLineupEntriesWrites(v.homeLineup, "home")
      [] k = 6 -> parseLineupEntriesWrites(v.awayLineup, "away")
      [] k = 7 -> buildStatsLookupWrites(d.player_stats.home, "home")
      [] k = 8 -> buildStatsLookupWrites(d.player_stats.away, "away")
      [] k = 9 -> resolveMvpWrites(d, v.mvp)
      [] k = 10 -> lineupCardWrites(v.homeLineup, v.homeCard, "home")
      [] OTHER -> lineupCardWrites(v.awayLineup, v.awayCard, "away")

\* The writes of the statements that run before the first one that raises.
RECURSIVE writesFrom(_, _, _)
writesFrom(d, v, k) ==
    IF k > INIT_STEPS \/ stepThrows(d, k) THEN <<>>
    ELSE stepWrites(d, v, k) \o writesFrom(d, v, k + 1)

applyWrite(d, w) ==
    LET t == w.target
    IN  IF t.space # "in" THEN d
        ELSE IF w.op = "set"
        THEN CASE t.kind = "row" -> [d EXCEPT !.player_stats[t.side][t.i] = assign(@, w.fields)]
               [] t.kind = "event" -> [d EXCEPT !.team_events[t.side][t.i] = assign(@, w.fields)]
               [] t.kind = "mvp" -> [d EXCEPT !.mvp = assign(@, w.fields)]
               [] OTHER -> d
        ELSE CASE t.kind = "rows" -> [d EXCEPT !.player_stats[t.side] = w.elems]
               [] t.kind = "events" -> [d EXCEPT !.team_events[t.side] = w.elems]
               [] OTHER -> d

RECURSIVE applyWrites(_, _)
applyWrites(d, ws) ==
    IF ws = <<>> THEN d ELSE applyWrites(applyWrite(d, Head(ws)), Tail(ws))

\* The payload as the derivation pass leaves it.
payloadAfter(d, v) == applyWrites(d, writesFrom(d, v, 1))

----------------------------------------------------------------------------
(* Live feed of the dashboard (page-servers.js) *)

FEED_CAP == 12

\* The markup of #liveFeed as the page is rendered: the placeholder alone.
InitialFeed == <<[cls |-> "empty"]>>

\* event.data is [enc |-> "json", val |-> v] for a text that JSON.parse
\* decodes to v, [enc |-> "garbage", text |-> t] for any other text.
parseMessage(raw) ==
    IF raw.enc = "garbage" THEN [event |-> "message", payload |-> raw.text] ELSE raw.val

\* data.ts on null is a TypeError; on an object or a scalar it is not.
onmessageThrows(raw) == parseMessage(raw) = null

\* Instants are milliseconds; the formatted text has the resolution of a
\* minute, and a falsy value gives N/A.
fmtDateTime(value) ==
    IF value = 0 THEN [text |-> "N/A"] ELSE [text |-> "minute", minute |-> value \div 60000]

\* String(value ?? '') with the five characters replaced.
esc(value) ==
    CASE value = "<goal>" -> "&lt;goal&gt;"
      [] OTHER -> value

\* data.ts || now, data.event || 'event'
feedRow(d, now) ==
    [cls |-> "item",
     meta |-> fmtDateTime(IF Has(d, "ts") /\ d.ts # 0 THEN d.ts ELSE now),
     text |-> esc(FirstTruthy(d, <<"event">>, "event"))]

RECURSIVE removeEmpty(_)
\* feed.querySelector('.empty') and remove(): the first placeholder goes.
removeEmpty(children) ==
    IF children = <<>> THEN <<>>
    ELSE IF Head(children).cls = "empty" THEN Tail(children)
    ELSE <<Head(children)>> \o removeEmpty(Tail(children))

RECURSIVE trimFeed(_)
\* while (feed.children.length > 12) feed.removeChild(feed.lastChild)
trimFeed(children) ==
    IF Len(children) > FEED_CAP THEN trimFeed(SubSeq(children, 1, Len(children) - 1))
    ELSE children

----------------------------------------------------------------------------
(* Bounds and input value sets *)

MaxFields == 2

MaxLineup == 7

MaxEventRows == 5

MaxProvided == 13

MaxMvpRows == 3

MaxBadRows == 2

MaxParse == 3

MaxAttachEvents == 2

MaxAttachRows == 2

MaxFlagLineup == 1

MaxFlagRows == 1

MaxMessages == 13

MaxIrregular == 2

MaxInputRows == 2

MaxInputLineup == 1

MaxInputEvents == 1

CounterKeys ==
    {"goals", "assists", "keeper_saves", "keeperSaves", "interceptions",
     "tackles", "sliding_tackles_completed", "slidingTacklesCompleted",
     "chances_created", "chancesCreated", "key_passes", "keyPasses",
     "shots_on_goal", "shotsOnGoal", "passes_completed", "passesCompleted",
     "red_cards", "redCards", "yellow_cards", "yellowCards",
     "own_goals", "ownGoals", "goals_conceded", "goalsConceded"}

RatingKeySet == SeqToSet(RatingKeys)

\* Counter values: non-negative, and even, so that no raw rating is an
\* exact x.x5 tie.
CounterVals == {0, 2, 6}

\* Explicit ratings in thousandths: below, inside and above [3, 10], on and
\* off a whole tenth.
RatingVals == {2000, 7240, 7250, 8000, 12000}

\* Goals may also be 3: a multiple of 1.1 never moves a raw rating onto
\* an x.x5 tie.
GoalVals == CounterVals \cup {3}

FieldVals(k) ==
    IF k \in RatingKeySet THEN RatingVals
    ELSE IF k = "goals" THEN GoalVals
    ELSE CounterVals

\* Raw lineup elements: tuples with and without the 4th item, in upper and
\* lower case, started and not, and a record.
LineupItems ==
    {[kind |-> "array", elems |-> <<"GK", "Ana", "1">>],
     [kind |-> "array", elems |-> <<"cf", "Bo", "2", "true">>],
     [kind |-> "array", elems |-> <<"CF", "Cy", "3", "false">>],
     [kind |-> "object", obj |-> [pos |-> " gk", name |-> "Ana"]]}

GameTypes == {<<>>, <<"5", "V", "5">>}

Tuple(pos, name, id) == [kind |-> "array", elems |-> <<pos, name, id>>]

\* Squads for the formation: the five-slot signature with a benched
\* player, the six-slot signature with a seventh starter, and the
\* five-slot signature with a sixth starter.
Roster5 ==
    {Tuple("GK", "Ana", "1"), Tuple("CB", "Bo", "2"), Tuple("LM", "Cy", "3"),
     Tuple("RM", "Dee", "4"), [kind |-> "array", elems |-> <<"cf", "Eli", "5", "true">>],
     [kind |-> "array", elems |-> <<"CF", "Fay", "6", "false">>]}

Roster6 ==
    {Tuple("GK", "Ana", "1"), Tuple("LW", "Bo", "2"), Tuple("RW", "Cy", "3"),
     Tuple("CM", "Dee", "4"), Tuple("LB", "Eli", "5"), Tuple("RB", "Fay", "6"),
     Tuple("CF", "Gus", "7")}

Roster5Plus ==
    {Tuple("GK", "Ana", "1"), Tuple("CB", "Bo", "2"), Tuple("LM", "Cy", "3"),
     Tuple("RM", "Dee", "4"), [kind |-> "array", elems |-> <<"cf", "Eli", "5", "true">>],
     Tuple("LW", "Bo", "2")}

Rosters == {Roster5, Roster6, Roster5Plus}

\* Game-type labels: none, one known token in either case, an unknown
\* token, two known tokens.
FormationHints ==
    {<<>>, <<"5", "V", "5">>, <<"6", "v", "6">>, <<"8", "v", "8">>,
     <<"7", "v", "7">>, <<"6", "v", "6", "/", "8", "v", "8">>}

SIDES == {"home", "away", "neutral"}

\* Statistic rows for the timeline: minute data as an object, as a JSON
\* string and as an undecodable string, repeated and unsorted minutes,
\* count-only rows, a minute beyond the sentinel, a row without a name.
EventRows ==
    {[player_name |-> "Bo", goals |-> 2, yellowCards |-> 2, red_cards |-> 1],
     [player_name |-> "Ana",
      event_timestamps |-> [enc |-> "object",
                            val |-> [goal |-> [t |-> "array", v |-> <<23, 23, 67>>]]]],
     [player_name |-> "Cy",
      eventTimestamps |-> [enc |-> "json",
                           val |-> [Goals |-> [t |-> "number", v |-> 1000],
                                    yellow |-> [t |-> "array", v |-> <<67, 5, 5>>],
                                    straight_red |-> [t |-> "array", v |-> <<90, 0>>]]]],
     [player_name |-> "A.na", event_timestamps |-> [enc |-> "garbage"], goals |-> 2],
     [steam_id |-> "76561",
      event_timestamps |-> [enc |-> "object",
                            val |-> [Yellow_Card |-> [t |-> "array", v |-> <<23>>],
                                     red |-> [t |-> "text"]]],
      redCards |-> 1, goals |-> 0],
     [player_name |-> "Bo",
      event_timestamps |-> [enc |-> "object",
                            val |-> [goal |-> [t |-> "array", v |-> <<23>>],
                                     red |-> [t |-> "array", v |-> <<999>>]]],
      goals |-> 2]}

\* Event lines as the provider precomputes them.
ProvidedEvents ==
    {[kind |-> "goal", name |-> "Ana", minutes |-> <<12>>],
     [kind |-> "yellow", name |-> "Cy", count |-> 1]}

\* Statistic rows for the MVP: equal and different ratings and tie-breaks,
\* explicit ratings, equal names at different positions.
MvpRows ==
    {[player_name |-> "Ana", position |-> "gk", keeper_saves |-> 6, interceptions |-> 4],
     [player_name |-> "Bo", position |-> "CF", goals |-> 2, steam_id |-> "2"],
     [player_name |-> "Cy", position |-> "CF", goals |-> 2, own_goals |-> 0],
     [name |-> "A.na", position |-> "CF", assists |-> 2, match_rating |-> 7700],
     [player_name |-> "Bo", position |-> "GK", match_rating |-> 7720, goals |-> 0],
     [player_name |-> "Cy", goals |-> 6, red_cards |-> 2, interceptions |-> 10]}

ProvidedMvps ==
    {[player_name |-> "Ana", goals |-> 6, mvp_score |-> 9000],
     [name |-> "Bo", position |-> "gk", goals |-> 2],
     [player_name |-> "Cy", position |-> "CF", assists |-> 2, mvp_stats |-> "2 goals"],
     [steam_id |-> "9", goals |-> 2]}

\* Malformed rows and lineup elements.
BadRows ==
    {null, EmptyObj,
     [player_name |-> "Ana", event_timestamps |-> [enc |-> "garbage"],
      clutch_actions |-> [enc |-> "garbage"], sub_impact |-> [enc |-> "json", val |-> EmptyObj]],
     [player_name |-> "Bo", status |-> "Started", goals |-> 2,
      clutchActions |-> [enc |-> "object", val |-> <<"save", "goal">>],
      sub_impact |-> [enc |-> "object",
                      val |-> [events |-> <<"goal">>, summary |-> [goals |-> 1]]]]}

\* Elements the parser accepts although they are incomplete: a tuple with
\* empty position and name, a record whose first position field is empty.
OddLineupItems ==
    {[kind |-> "array", elems |-> <<"", "", "7", "0">>],
     [kind |-> "object", obj |-> [position |-> "", pos |-> "cf", steamId |-> "8"]]}

BadLineupItems ==
    {[kind |-> "other"],
     [kind |-> "array", elems |-> <<"GK", "Ana">>],
     [kind |-> "object", obj |-> [name |-> "Bo"]],
     [kind |-> "object", obj |-> [slot |-> "gk", player |-> "Cy", started |-> "null"]]}

----------------------------------------------------------------------------
(* The payload before anything is derived *)

EmptyData ==
    [match |-> [home_lineup |-> <<>>, away_lineup |-> <<>>, game_type |-> <<>>],
     player_stats |-> [home |-> <<>>, away |-> <<>>, neutral |-> <<>>],
     team_events |-> EmptyObj,
     mvp |-> null]

NoView == [done |-> FALSE]

----------------------------------------------------------------------------
(* init, common to every specification below: the payload has arrived,    *)
(* the derivation runs to the end or the catch block reports the error.   *)

init ==
    /\ pc = "input"
    /\ IF initThrows(data)
       THEN /\ pc' = "failed"
            /\ view' = view
            /\ data' = payloadAfter(data, derive(data))
       ELSE /\ pc' = "rendered"
            /\ view' = derive(data)
            /\ data' = payloadAfter(data, view')
    /\ UNCHANGED <<feed, received, player, rating>>

AddStat(side, row) ==
    /\ pc = "input"
    /\ data' = [data EXCEPT !.player_stats[side] = Append(@, row)]
    /\ UNCHANGED <<feed, received, pc, player, rating, view>>

AddLineupItem(item) ==
    /\ pc = "input"
    /\ data' = [data EXCEPT !.match.home_lineup = Append(@, item)]
    /\ UNCHANGED <<feed, received, pc, player, rating, view>>

AddAwayLineupItem(item) ==
    /\ pc = "input"
    /\ data' = [data EXCEPT !.match.away_lineup = Append(@, item)]
    /\ UNCHANGED <<feed, received, pc, player, rating, view>>

\* The provider supplies a precomputed list for the home side, empty so far.
SupplyEventList ==
    /\ pc = "input"
    /\ ~Has(data.team_events, "home")
    /\ data' = [data EXCEPT !.team_events = Put(@, "home", <<>>)]
    /\ UNCHANGED <<feed, received, pc, player, rating, view>>

AddProvidedEvent(ev) ==
    /\ pc = "input"
    /\ Has(data.team_events, "home")
    /\ data' = [data EXCEPT !.team_events.home = Append(@, ev)]
    /\ UNCHANGED <<feed, received, pc, player, rating, view>>

SetProvidedMvp(m) ==
    /\ pc = "input"
    /\ data.mvp = null
    /\ data' = [data EXCEPT !.mvp = m]
    /\ UNCHANGED <<feed, received, pc, player, rating, view>>

PayloadInit ==
    /\ pc = "input"
    /\ player = EmptyObj
    /\ rating = 0
    /\ data = EmptyData
    /\ view = NoView
    /\ feed = InitialFeed
    /\ received = <<>>

----------------------------------------------------------------------------
(* Specification of the Rating Engine alone: a row is built field by      *)
(* field, or is null, and playerRating10 is applied to it.                *)

RatingInit ==
    /\ pc = "input"
    /\ player \in {EmptyObj, null}
    /\ rating = 0
    /\ data = EmptyData
    /\ view = NoView
    /\ feed = InitialFeed
    /\ received = <<>>

SetField(k, v) ==
    /\ pc = "input"
    /\ player # null
    /\ ~Has(player, k)
    /\ Cardinality(DOMAIN player) < MaxFields
    /\ player' = Put(player, k, v)
    /\ UNCHANGED <<feed, received, pc, rating, data, view>>

Rate ==
    /\ pc = "input"
    /\ rating' = playerRating10(player)
    /\ pc' = "rated"
    /\ UNCHANGED <<feed, received, player, data, view>>

\* playerRating10 applied again to the same row with one counter raised.
RaiseCounter(k, v) ==
    /\ pc \in {"rated", "raised"}
    /\ player # null
    /\ Has(player, k)
    /\ v > player[k]
    /\ player' = [player EXCEPT ![k] = v]
    /\ rating' = playerRating10(player')
    /\ pc' = "raised"
    /\ UNCHANGED <<feed, received, data, view>>

RatingNext ==
    \/ \E k \in CounterKeys \cup RatingKeySet : \E v \in FieldVals(k) : SetField(k, v)
    \/ Rate
    \/ \E k \in CounterKeys : \E v \in CounterVals : RaiseCounter(k, v)

SpecRating == RatingInit /\ [][RatingNext]_vars

----------------------------------------------------------------------------
(* Specification of the lineup of one side: raw elements arrive, with or  *)
(* without a game-type hint.                                              *)

LineupInit ==
    /\ pc = "input"
    /\ player = EmptyObj
    /\ rating = 0
    /\ \E g \in GameTypes : data = [EmptyData EXCEPT !.match.game_type = g]
    /\ view = NoView
    /\ feed = InitialFeed
    /\ received = <<>>

LineupNext ==
    \/ \E item \in LineupItems :
          Len(data.match.home_lineup) < MaxLineup /\ AddLineupItem(item)
    \/ init

SpecLineup == LineupInit /\ [][LineupNext]_vars

----------------------------------------------------------------------------
(* Specification of the formation of one side: the players of one squad   *)
(* are declared in any order, each once, under any game-type label.       *)

FormationInit ==
    /\ pc = "input"
    /\ player = EmptyObj
    /\ rating = 0
    /\ \E g \in FormationHints : data = [EmptyData EXCEPT !.match.game_type = g]
    /\ view = NoView
    /\ feed = InitialFeed
    /\ received = <<>>

FormationNext ==
    \/ \E roster \in Rosters : \E item \in roster :
          /\ Len(data.match.home_lineup) < MaxLineup
          /\ SeqToSet(data.match.home_lineup) \subseteq roster
          /\ item \notin SeqToSet(data.match.home_lineup)
          /\ AddLineupItem(item)
    \/ init

SpecFormation == FormationInit /\ [][FormationNext]_vars

----------------------------------------------------------------------------
(* Specification of the timeline derived from one side's rows.            *)

EventsNext ==
    \/ \E row \in EventRows :
          Len(data.player_stats.home) < MaxEventRows /\ AddStat("home", row)
    \/ init

SpecEvents == PayloadInit /\ [][EventsNext]_vars

----------------------------------------------------------------------------
(* Specification of the timeline when the provider precomputes it.        *)

ProvidedNext ==
    \/ SupplyEventList
    \/ \E ev \in ProvidedEvents :
          /\ Has(data.team_events, "home")
          /\ Len(data.team_events.home) < MaxProvided
          /\ AddProvidedEvent(ev)
    \/ \E row \in EventRows :
          Len(data.player_stats.home) < 1 /\ AddStat("home", row)
    \/ init

SpecProvided == PayloadInit /\ [][ProvidedNext]_vars

----------------------------------------------------------------------------
(* Specification of the rating annotation: a few rows of one side, also   *)
(* with equal normalized names, and a short list from the provider or     *)
(* none.                                                                  *)

AttachNext ==
    \/ SupplyEventList
    \/ \E ev \in ProvidedEvents :
          /\ Has(data.team_events, "home")
          /\ Len(data.team_events.home) < MaxAttachEvents
          /\ AddProvidedEvent(ev)
    \/ \E row \in EventRows :
          Len(data.player_stats.home) < MaxAttachRows /\ AddStat("home", row)
    \/ init

SpecAttach == PayloadInit /\ [][AttachNext]_vars

----------------------------------------------------------------------------
(* Specification of the MVP: rows on the three sides, with or without a   *)
(* record from the provider.                                              *)

MvpNext ==
    \/ \E side \in SIDES : \E row \in MvpRows :
          Len(allStatsOf(data)) < MaxMvpRows /\ AddStat(side, row)
    \/ \E m \in ProvidedMvps : SetProvidedMvp(m)
    \/ init

SpecMvp == PayloadInit /\ [][MvpNext]_vars

----------------------------------------------------------------------------
(* Specification of malformed payloads.                                   *)

MalformedNext ==
    \/ \E side \in SIDES : \E row \in BadRows :
          Len(allStatsOf(data)) < MaxBadRows /\ AddStat(side, row)
    \/ \E item \in BadLineupItems :
          Len(data.match.home_lineup) < MaxBadRows /\ AddLineupItem(item)
    \/ \E m \in ProvidedMvps : SetProvidedMvp(m)
    \/ init

SpecMalformed == PayloadInit /\ [][MalformedNext]_vars

----------------------------------------------------------------------------
(* Specification of the lineup parser: well-formed and malformed elements *)
(* in one declaration.                                                    *)

ParseNext ==
    \/ \E item \in LineupItems \cup BadLineupItems \cup OddLineupItems :
          Len(data.match.home_lineup) < MaxParse /\ AddLineupItem(item)
    \/ init

SpecParse == PayloadInit /\ [][ParseNext]_vars

----------------------------------------------------------------------------
(* Specification of the MVP badge: the lineups of both sides, rows of     *)
(* both sides, with or without a record from the provider.                *)

FlagLineupItems ==
    {[kind |-> "array", elems |-> <<"GK", "Ana", "1">>],
     [kind |-> "array", elems |-> <<"cf", "Bo", "2", "true">>],
     [kind |-> "object", obj |-> [pos |-> " gk", name |-> "Ana"]]}

FlagRows ==
    {[player_name |-> "Ana", position |-> "gk", keeper_saves |-> 6, interceptions |-> 4],
     [player_name |-> "Bo", position |-> "CF", goals |-> 2, steam_id |-> "2"],
     [player_name |-> "Bo", position |-> "GK", match_rating |-> 7720, goals |-> 0]}

FlagNext ==
    \/ \E item \in FlagLineupItems :
          Len(data.match.home_lineup) < MaxFlagLineup /\ AddLineupItem(item)
    \/ \E item \in FlagLineupItems :
          Len(data.match.away_lineup) < MaxFlagLineup /\ AddAwayLineupItem(item)
    \/ \E side \in {"home", "away"} : \E row \in FlagRows :
          Len(allStatsOf(data)) < MaxFlagRows /\ AddStat(side, row)
    \/ \E m \in ProvidedMvps : SetProvidedMvp(m)
    \/ init

SpecFlag == PayloadInit /\ [][FlagNext]_vars

----------------------------------------------------------------------------
(* Specification of the whole payload: rows, lineup elements of both      *)
(* sides, lines from the provider and a record from the provider          *)
(* together.                                                              *)

InputRows ==
    {[player_name |-> "Ana", position |-> "gk", keeper_saves |-> 6, interceptions |-> 4],
     [player_name |-> "Bo", position |-> "GK", match_rating |-> 7720, goals |-> 0]}

InputsNext ==
    \/ \E side \in {"home", "away"} : \E row \in InputRows :
          Len(allStatsOf(data)) < MaxInputRows /\ AddStat(side, row)
    \/ \E item \in FlagLineupItems :
          Len(data.match.home_lineup) < MaxInputLineup /\ AddLineupItem(item)
    \/ \E item \in FlagLineupItems :
          Len(data.match.away_lineup) < MaxInputLineup /\ AddAwayLineupItem(item)
    \/ SupplyEventList
    \/ \E ev \in ProvidedEvents :
          /\ Has(data.team_events, "home")
          /\ Len(data.team_events.home) < MaxInputEvents
          /\ AddProvidedEvent(ev)
    \/ \E m \in ProvidedMvps : SetProvidedMvp(m)
    \/ init

SpecInputs == PayloadInit /\ [][InputsNext]_vars

----------------------------------------------------------------------------
(* Specification of the live feed: the socket delivers one message a      *)
(* minute; most are event objects stamped by the sender, a few are        *)
(* objects without fields, texts that are not JSON, or the JSON null.     *)

FeedInit ==
    /\ pc = "listening"
    /\ player = EmptyObj
    /\ rating = 0
    /\ data = EmptyData
    /\ view = NoView
    /\ feed = InitialFeed
    /\ received = <<>>

\* The clock when the n-th message arrives.
Clock(n) == n * 60000

RegularMessage(n) ==
    [enc |-> "json", val |-> [ts |-> Clock(n), event |-> "<goal>"]]

IrregularMessages ==
    {[enc |-> "json", val |-> EmptyObj],
     [enc |-> "garbage", text |-> "hello"],
     [enc |-> "json", val |-> null]}

Irregular(log) == {i \in 1..Len(log) : log[i].raw \in IrregularMessages}

\* ws.onmessage
onmessage(raw, now) ==
    /\ pc = "listening"
    /\ received' = Append(received, [raw |-> raw, now |-> now])
    /\ feed' = IF onmessageThrows(raw) THEN feed
               ELSE trimFeed(removeEmpty(<<feedRow(parseMessage(raw), now)>> \o feed))
    /\ UNCHANGED <<pc, player, rating, data, view>>

FeedNext ==
    \E raw \in {RegularMessage(Len(received) + 1)} \cup IrregularMessages :
        /\ Len(received) < MaxMessages
        /\ raw \in IrregularMessages => Cardinality(Irregular(received)) < MaxIrregular
        /\ onmessage(raw, Clock(Len(received) + 1))

SpecFeed == FeedInit /\ [][FeedNext]_vars

----------------------------------------------------------------------------
(* Claims *)

NoCounters(p) == \A k \in CounterKeys : ~Has(p, k)

\* C1: whatever the row (explicit rating under any accepted name or not,
\* any non-negative counters), playerRating10 returns a value between 3.0
\* and 10.0 that is a whole number of tenths.
C1_RatingBoundedOneDecimal ==
    pc = "rated" => (rating >= 3000 /\ rating <= 10000 /\ rating % 100 = 0)

C1_Witness ==
    /\ pc = "rated"
    /\ player # null
    /\ ProvidedRating(player) = <<>>
    /\ RawRating(player) > 10000
    /\ rating = 10000

BoundIndices(card) == {card.slotIndex[s] : s \in 1..Len(card.slots)} \ {0}

\* C2: in the formation assignment no started entry is bound to two slots,
\* a slot holds at most one started entry, and the bound entries together
\* with the overflow list are exactly the started entries of the lineup,
\* each once.
C2_AssignmentPartitionsStarters ==
    pc = "rendered" =>
        LET card == view.homeCard
            n == Len(card.started)
            wanted == startedEntries(view.homeLineup)
            over == card.overflowStarters
        IN  /\ n = Len(wanted)
            /\ \A i \in 1..n :
                  /\ card.started[i].started = TRUE
                  /\ card.started[i].name = wanted[i].name
                  /\ card.started[i].steamId = wanted[i].steamId
            /\ \A s \in 1..Len(card.slots) : card.slotIndex[s] \in 0..n
            /\ \A s, t \in 1..Len(card.slots) :
                  (s # t /\ card.slotIndex[s] # 0) => card.slotIndex[s] # card.slotIndex[t]
            /\ \A i, j \in 1..Len(over) : i # j => over[i] # over[j]
            /\ BoundIndices(card) \cap SeqToSet(over) = {}
            /\ BoundIndices(card) \cup SeqToSet(over) = 1..n

C2_Witness ==
    /\ pc = "rendered"
    /\ view.homeCard.overflowStarters # <<>>
    /\ Len(view.homeLineup) > Len(view.homeCard.started)
    /\ \E s \in 1..Len(view.homeCard.slots) :
          /\ view.homeCard.slotIndex[s] # 0
          /\ view.homeCard.started[view.homeCard.slotIndex[s]].pos # view.homeCard.slots[s].pos

\* C3: the timeline of each side handed to the page has at most 12
\* entries, derived from the rows or supplied by the provider.
C3_TimelineAtMostTwelve ==
    pc = "rendered" =>
        (Len(view.homeEvents) <= EVENT_CAP /\ Len(view.awayEvents) <= EVENT_CAP)

MinuteBearing(line) == Has(line, "minutes")

CountOnly(line) == Has(line, "count")

NameOrdered(a, b) == CollationRank(a.name) <= CollationRank(b.name)

\* C4 as claimed: the timeline is ordered by earliest minute, then by name,
\* and every count-only entry comes after every minute-bearing entry,
\* whatever minutes those carry.
C4_CountOnlyAfterEveryMinute ==
    pc = "rendered" =>
        LET tl == view.homeEvents
        IN  \A i, j \in 1..Len(tl) :
               /\ (i < j /\ MinuteBearing(tl[i]) /\ MinuteBearing(tl[j])) =>
                     \/ tl[i].minutes[1] < tl[j].minutes[1]
                     \/ (tl[i].minutes[1] = tl[j].minutes[1] /\ NameOrdered(tl[i], tl[j]))
               /\ (i < j /\ CountOnly(tl[i]) /\ CountOnly(tl[j])) => NameOrdered(tl[i], tl[j])
               /\ (CountOnly(tl[i]) /\ MinuteBearing(tl[j])) => j < i

EarliestOrSentinel(line) == IF MinuteBearing(line) THEN line.minutes[1] ELSE EVENT_SENTINEL

\* C4 as amended: the timeline is ordered by the key "earliest minute, or
\* 999 for a count-only entry", then by name; so every count-only entry
\* comes after every minute-bearing entry whose earliest minute is below
\* 999.
C4_OrderedBySentinelKey ==
    pc = "rendered" =>
        LET tl == view.homeEvents
        IN  \A i, j \in 1..Len(tl) :
               /\ i < j =>
                     \/ EarliestOrSentinel(tl[i]) < EarliestOrSentinel(tl[j])
                     \/ /\ EarliestOrSentinel(tl[i]) = EarliestOrSentinel(tl[j])
                        /\ NameOrdered(tl[i], tl[j])
               /\ (CountOnly(tl[i]) /\ MinuteBearing(tl[j]) /\ tl[j].minutes[1] < EVENT_SENTINEL)
                     => j < i

C4_Witness ==
    /\ pc = "rendered"
    /\ \E i, j, k, l \in 1..Len(view.homeEvents) :
          /\ i < j /\ j < k /\ k < l
          /\ MinuteBearing(view.homeEvents[i])
          /\ MinuteBearing(view.homeEvents[j])
          /\ view.homeEvents[i].minutes[1] = view.homeEvents[j].minutes[1]
          /\ view.homeEvents[i].name # view.homeEvents[j].name
          /\ CountOnly(view.homeEvents[k])
          /\ MinuteBearing(view.homeEvents[l])

RatingAt(rows, i) == playerRating10(rows[i])

TieBreakAt(rows, i) ==
    pickNum(rows[i], <<"goals">>) * 4 + pickNum(rows[i], <<"assists">>) * 3
    + pickNum(rows[i], <<"interceptions">>) + pickNum(rows[i], <<"keeper_saves", "keeperSaves">>)

TopRated(rows) ==
    {i \in 1..Len(rows) : \A j \in 1..Len(rows) : RatingAt(rows, j) <= RatingAt(rows, i)}

TopTied(rows) ==
    {i \in TopRated(rows) : \A j \in TopRated(rows) : TieBreakAt(rows, j) <= TieBreakAt(rows, i)}

IsCopyOf(m, row) ==
    /\ DOMAIN m = (DOMAIN row) \cup {"_rating", "_tieBreak"}
    /\ \A k \in DOMAIN row : m[k] = row[k]

\* C5: without a record from the provider and with at least one row, the
\* MVP is a copy of the row of highest rating; among those, of highest
\* tie-break score; among those, the first in the order home, away,
\* neutral.
C5_MvpIsFirstBestRow ==
    (pc = "rendered" /\ data.mvp = null /\ Len(allStatsOf(data)) > 0) =>
        LET rows == data.player_stats.home \o data.player_stats.away \o data.player_stats.neutral
            best == Min(TopTied(rows))
        IN  /\ IsCopyOf(view.mvp, rows[best])
            /\ view.mvp["_rating"] = RatingAt(rows, best)

C5_Witness ==
    /\ pc = "rendered"
    /\ data.mvp = null
    /\ data.player_stats.away # <<>>
    /\ data.player_stats.neutral # <<>>
    /\ LET rows == allStatsOf(data)
       IN  /\ Cardinality(TopRated(rows)) = 3
           /\ Cardinality(TopTied(rows)) = 2
           /\ 1 \notin TopTied(rows)
           /\ \E i, j \in TopTied(rows) : rows[i] # rows[j]

\* C6: when the provider's MVP record matches a statistic row, every field
\* the record carries keeps the provider's value; the row only fills the
\* fields the record lacks.
C6_ProvidedFieldsKept ==
    (pc = "rendered" /\ data.mvp # null /\ findLinked(allStatsOf(data), data.mvp) # <<>>) =>
        \A k \in (DOMAIN data.mvp) \ {"_rating"} : view.mvp[k] = data.mvp[k]

EmptyIdentity == [steam |-> "", name |-> "", pos |-> ""]

\* C7 as claimed: whenever the combined statistic set is empty the MVP is
\* null, its identity the empty triple, and nothing is raised.
C7_EmptyStatsNoMvp ==
    Len(allStatsOf(data)) = 0 =>
        /\ pc # "failed"
        /\ pc = "rendered" => (view.mvp = null /\ view.mvpKey = EmptyIdentity)

\* C7 as amended: whenever the combined statistic set is empty and the
\* provider supplies no MVP record, the MVP is null, its identity the empty
\* triple, and nothing is raised.
C7_EmptyStatsNoRecordNoMvp ==
    (Len(allStatsOf(data)) = 0 /\ data.mvp = null) =>
        /\ pc # "failed"
        /\ pc = "rendered" => (view.mvp = null /\ view.mvpKey = EmptyIdentity)

C7_Witness ==
    /\ pc = "rendered"
    /\ Len(allStatsOf(data)) = 0
    /\ data.mvp = null
    /\ view.mvp = null

\* C8: whatever is malformed in the payload, the derivation completes and
\* never raises.
C8_DerivationNeverRaises == pc # "failed"

PositiveCounterKeys ==
    {"goals", "assists", "keeper_saves", "keeperSaves", "interceptions",
     "tackles", "sliding_tackles_completed", "slidingTacklesCompleted",
     "chances_created", "chancesCreated", "key_passes", "keyPasses",
     "shots_on_goal", "shotsOnGoal", "passes_completed", "passesCompleted"}

NegativeCounterKeys == CounterKeys \ PositiveCounterKeys

RaisedOnly(k) ==
    /\ player # null
    /\ Has(player, k)
    /\ DOMAIN player' = DOMAIN player
    /\ player'[k] > player[k]
    /\ \A x \in (DOMAIN player) \ {k} : player'[x] = player[x]

\* C11: for a row without explicit rating and with non-negative counters,
\* rating the row again after one positive counter was raised (all else
\* fixed) never gives a lower rating, and after one negative counter was
\* raised never gives a higher one, rounding and clamp included.
C11_RatingMonotone ==
    [][(pc \in {"rated", "raised"} /\ pc' = "raised" /\ ProvidedRating(player) = <<>>) =>
          /\ \A k \in PositiveCounterKeys : RaisedOnly(k) => rating' >= rating
          /\ \A k \in NegativeCounterKeys : RaisedOnly(k) => rating' <= rating]_vars

C11_Witness ==
    /\ pc = "raised"
    /\ player # null
    /\ ProvidedRating(player) = <<>>
    /\ Has(player, "passes_completed") /\ player["passes_completed"] = 6
    /\ Has(player, "red_cards") /\ player["red_cards"] = 2
    /\ rating = 3000

GoalsAt(rows, i) == pickNum(rows[i], <<"goals">>)

\* Two rows, neither with an explicit rating, whose computed ratings are
\* equal, and no record from the provider.
TwoRowsTied(rows) ==
    /\ pc = "rendered"
    /\ data.mvp = null
    /\ Len(rows) = 2
    /\ ProvidedRating(rows[1]) = <<>>
    /\ ProvidedRating(rows[2]) = <<>>
    /\ RatingAt(rows, 1) = RatingAt(rows, 2)

\* C12 as claimed: of two rows with equal computed ratings and no record
\* from the provider, the one with strictly more goals is the MVP, whatever
\* the other counters of the two rows.
C12_MoreGoalsWinsTie ==
    LET rows == allStatsOf(data)
    IN  TwoRowsTied(rows) =>
           \A i, j \in 1..2 :
              GoalsAt(rows, i) > GoalsAt(rows, j) => IsCopyOf(view.mvp, rows[i])

\* C12 as amended: of two rows with equal computed ratings and no record
\* from the provider, the one with the strictly higher tie-break score
\* 4 goals + 3 assists + interceptions + saves is the MVP, the first one
\* when the scores are equal; so the row with strictly more goals is the
\* MVP when its score is the higher, as it is when the two rows agree on
\* assists, interceptions and saves.
C12_HigherTieBreakWinsTie ==
    LET rows == allStatsOf(data)
    IN  TwoRowsTied(rows) =>
           /\ \A i, j \in 1..2 :
                 TieBreakAt(rows, i) > TieBreakAt(rows, j) => IsCopyOf(view.mvp, rows[i])
           /\ TieBreakAt(rows, 1) = TieBreakAt(rows, 2) => IsCopyOf(view.mvp, rows[1])
           /\ \A i, j \in 1..2 :
                 (/\ GoalsAt(rows, i) > GoalsAt(rows, j)
                  /\ pickNum(rows[i], <<"assists">>) = pickNum(rows[j], <<"assists">>)
                  /\ pickNum(rows[i], <<"interceptions">>) = pickNum(rows[j], <<"interceptions">>)
                  /\ pickNum(rows[i], <<"keeper_saves", "keeperSaves">>)
                         = pickNum(rows[j], <<"keeper_saves", "keeperSaves">>))
                    => IsCopyOf(view.mvp, rows[i])

C12_Witness ==
    LET rows == allStatsOf(data)
    IN  /\ TwoRowsTied(rows)
        /\ GoalsAt(rows, 1) > GoalsAt(rows, 2)
        /\ TieBreakAt(rows, 1) < TieBreakAt(rows, 2)
        /\ IsCopyOf(view.mvp, rows[2])
        /\ ~IsCopyOf(view.mvp, rows[1])

FiveCodes == {"CF", "LM", "RM", "CB", "GK"}

SixCodes == {"LW", "RW", "CM", "LB", "RB", "GK"}

StartedCodes(entries) ==
    {normalizeLineupPos(startedEntries(entries)[i].pos) : i \in 1..Len(startedEntries(entries))}

\* C13: a side whose started entries are one each of GK, CB, LM, RM, CF, in
\* any order and with no game-type hint, gets the five-slot template, every
\* slot bound to the entry of the slot's own position code, no slot left a
\* placeholder, and no overflow.
C13_ScenarioAExactMatch ==
    (/\ pc = "rendered"
     /\ data.match.game_type = <<>>
     /\ Len(startedEntries(view.homeLineup)) = 5
     /\ StartedCodes(view.homeLineup) = FiveCodes) =>
        LET card == view.homeCard
        IN  /\ card.formationKey = "five"
            /\ card.slots = FORMATIONS.five
            /\ \A s \in 1..5 :
                  /\ card.slotIndex[s] # 0
                  /\ card.started[card.slotIndex[s]].pos = card.slots[s].pos
            /\ card.overflowStarters = <<>>

C13_Witness ==
    /\ pc = "rendered"
    /\ data.match.game_type = <<>>
    /\ Len(view.homeLineup) = 6
    /\ Len(startedEntries(view.homeLineup)) = 5
    /\ StartedCodes(view.homeLineup) = FiveCodes
    /\ view.homeLineup[1].pos = "GK"
    /\ view.homeLineup[2].started = FALSE
    /\ view.homeCard.slotIndex = <<5, 3, 4, 2, 1>>

NoPenalties(p) ==
    /\ pickNum(p, <<"red_cards", "redCards">>) = 0
    /\ pickNum(p, <<"yellow_cards", "yellowCards">>) = 0
    /\ pickNum(p, <<"own_goals", "ownGoals">>) = 0
    /\ pickNum(p, <<"goals_conceded", "goalsConceded">>) = 0

ThreeGoalsRated ==
    /\ pc = "rated"
    /\ player # null
    /\ ProvidedRating(player) = <<>>
    /\ pickNum(player, <<"goals">>) = 3

StrictlyAscending(ms) == \A i, j \in 1..Len(ms) : i < j => ms[i] < ms[j]

ScenarioCRow ==
    [player_name |-> "Ana",
     event_timestamps |-> [enc |-> "object",
                           val |-> [goal |-> [t |-> "array", v |-> <<23, 23, 67>>]]]]

GoalLinesOf(tl, name) == {i \in 1..Len(tl) : tl[i].kind = "goal" /\ tl[i].name = name}

\* C15: the minute list of every minute-bearing line derived from the rows
\* is a non-empty list of positive integers in strictly ascending order
\* (sorted, no duplicates); a row with timestamp map {goal: [23, 23, 67]}
\* gives one goal entry, with minutes [23, 67].
C15_MinutesPositiveAscending ==
    pc = "rendered" =>
        LET tl == view.homeEvents
            rows == data.player_stats.home
        IN  /\ \A i \in 1..Len(tl) :
                  MinuteBearing(tl[i]) =>
                     /\ tl[i].minutes # <<>>
                     /\ \A m \in 1..Len(tl[i].minutes) :
                           tl[i].minutes[m] \in Nat /\ tl[i].minutes[m] >= 1
                     /\ StrictlyAscending(tl[i].minutes)
                     /\ tl[i].sortMinute = tl[i].minutes[1]
            /\ rows = <<ScenarioCRow>> =>
                  /\ Len(tl) = 1
                  /\ tl[1].kind = "goal" /\ tl[1].name = "Ana" /\ tl[1].minutes = <<23, 67>>
            /\ (\E r \in 1..Len(rows) : rows[r] = ScenarioCRow) =>
                  /\ \A i \in GoalLinesOf(tl, "Ana") : tl[i].minutes = <<23, 67>>
                  /\ Cardinality(GoalLinesOf(tl, "Ana"))
                        = Cardinality({r \in 1..Len(rows) : safeName(rows[r]) = "Ana"})

C15_Witness ==
    /\ pc = "rendered"
    /\ Len(data.player_stats.home) >= 2
    /\ data.player_stats.home[2] = ScenarioCRow
    /\ \E i, j \in 1..Len(view.homeEvents) :
          /\ MinuteBearing(view.homeEvents[i])
          /\ view.homeEvents[i].minutes = <<23, 67>>
          /\ view.homeEvents[i].name = "Ana"
          /\ MinuteBearing(view.homeEvents[j])
          /\ view.homeEvents[j].minutes = <<5, 67>>

RecordName(o) == normName(FirstTruthy(o, <<"player_name", "name">>, ""))

RecordPos(o) == toUpperCase(FirstTruthy(o, <<"position">>, ""))

\* The provider's record names a player, and no statistic row has that
\* normalized name together with the record's position, if it has one.
NamedInNoRow(rows, record) ==
    /\ record # null
    /\ RecordName(record) # ""
    /\ \A i \in 1..Len(rows) :
          \/ RecordName(rows[i]) # RecordName(record)
          \/ (RecordPos(record) # "" /\ RecordPos(rows[i]) # RecordPos(record))

\* C16: when the provider's MVP record names a player found in no statistic
\* row, the MVP is that record, every field with the value supplied and no
\* field from a row, plus the rating the Rating Engine gives the record
\* itself.
C16_AbsentRecordReturnedUnmerged ==
    (pc = "rendered" /\ NamedInNoRow(allStatsOf(data), data.mvp)) =>
        /\ DOMAIN view.mvp = (DOMAIN data.mvp) \cup {"_rating"}
        /\ \A k \in (DOMAIN data.mvp) \ {"_rating"} : view.mvp[k] = data.mvp[k]
        /\ view.mvp["_rating"] = playerRating10(data.mvp)

C16_Witness ==
    /\ pc = "rendered"
    /\ NamedInNoRow(allStatsOf(data), data.mvp)
    /\ \E i \in 1..Len(allStatsOf(data)) :
          /\ RecordName(allStatsOf(data)[i]) = RecordName(data.mvp)
          /\ Has(allStatsOf(data)[i], "steam_id")
    /\ ~Has(view.mvp, "steam_id")
    /\ view.mvp["_rating"] = 7700

SuppliedHome == Has(data.team_events, "home")

\* The timeline is the given list, entry by entry and in its order, each
\* entry with only the rating annotation added.
IsAnnotated(tl, list) ==
    /\ Len(tl) = Len(list)
    /\ \A i \in 1..Len(list) :
          /\ DOMAIN tl[i] = (DOMAIN list[i]) \cup {"rating"}
          /\ \A k \in (DOMAIN list[i]) \ {"rating"} : tl[i][k] = list[i][k]

IsDerived(tl, rows) == IsAnnotated(tl, buildEventLines(rows))

\* C17 as claimed: when the provider supplies an event list for a side,
\* the timeline of the side is that list with the rating annotation added
\* and no line comes from the statistic rows; the lines are derived from
\* the rows only when no list is supplied.
C17_SuppliedListUsed ==
    pc = "rendered" =>
        IF SuppliedHome
        THEN IsAnnotated(view.homeEvents, data.team_events.home)
        ELSE IsDerived(view.homeEvents, data.player_stats.home)

\* C17 as amended: when the provider supplies a non-empty event list for a
\* side, the timeline of the side is that list with the rating annotation
\* added and no line comes from the statistic rows; the lines are derived
\* from the rows when no list is supplied or the supplied list is empty.
C17_NonEmptySuppliedListUsed ==
    pc = "rendered" =>
        IF SuppliedHome /\ data.team_events.home # <<>>
        THEN IsAnnotated(view.homeEvents, data.team_events.home)
        ELSE IsDerived(view.homeEvents, data.player_stats.home)

C17_Witness ==
    /\ pc = "rendered"
    /\ SuppliedHome
    /\ Len(data.team_events.home) = 2
    /\ data.team_events.home[1].name = "Cy"
    /\ data.team_events.home[2].name = "Ana"
    /\ buildEventLines(data.player_stats.home) # <<>>
    /\ view.homeEvents[1].name = "Cy"
    /\ view.homeEvents[2].rating = <<5500>>

PositionSynonyms == {"position", "pos", "slot"}

\* A tuple with at least 3 items, or a record with a non-empty position
\* under one of the accepted names.
Accepted(item) ==
    \/ item.kind = "array" /\ Len(item.elems) >= 3
    \/ item.kind = "object" /\ \E k \in PositionSynonyms : Has(item.obj, k) /\ item.obj[k] # ""

ExpectedStarted(item) ==
    IF item.kind = "array"
    THEN IF Len(item.elems) >= 4 THEN Boolean(item.elems[4]) ELSE TRUE
    ELSE IF Has(item.obj, "started") THEN Boolean(item.obj.started) ELSE TRUE

ExpectedPos(item) ==
    IF item.kind = "array" THEN toUpperCase(item.elems[1])
    ELSE toUpperCase(item.obj[CHOOSE k \in PositionSynonyms :
                                 /\ Has(item.obj, k) /\ item.obj[k] # ""
                                 /\ (k = "pos" => ~(Has(item.obj, "position") /\ item.obj["position"] # ""))
                                 /\ (k = "slot" => \A x \in {"position", "pos"} :
                                                       ~(Has(item.obj, x) /\ item.obj[x] # ""))])

AcceptedIndices(raw) == SelectSeq([i \in 1..Len(raw) |-> i], LAMBDA i : Accepted(raw[i]))

\* C18: parseLineupEntries never raises and returns, in input order, one
\* entry for each tuple of at least 3 items (started: the boolean of the
\* 4th item, true without one) and for each record with a non-empty
\* position under position, pos or slot (started: true when absent); no
\* other element gives an entry.
C18_ParserKeepsAcceptedInOrder ==
    /\ pc # "failed"
    /\ pc = "rendered" =>
          LET raw == data.match.home_lineup
              acc == AcceptedIndices(raw)
              entries == view.homeLineup
          IN  /\ Len(entries) = Len(acc)
              /\ \A j \in 1..Len(acc) :
                    /\ entries[j].started = ExpectedStarted(raw[acc[j]])
                    /\ entries[j].pos = ExpectedPos(raw[acc[j]])

C18_Witness ==
    /\ pc = "rendered"
    /\ Len(data.match.home_lineup) = 3
    /\ Accepted(data.match.home_lineup[1])
    /\ data.match.home_lineup[1].kind = "object"
    /\ ~Accepted(data.match.home_lineup[2])
    /\ data.match.home_lineup[2].kind = "array"
    /\ Accepted(data.match.home_lineup[3])
    /\ data.match.home_lineup[3].kind = "array"
    /\ Len(view.homeLineup) = 2
    /\ view.homeLineup[1].started = TRUE
    /\ view.homeLineup[2].started = FALSE

\* The templates whose squad-size token occurs in the label, in any case.
KnownTokens(hint) ==
    {key \in {"eight", "six", "five"} :
        LET digit == CASE key = "eight" -> "8" [] key = "six" -> "6" [] OTHER -> "5"
        IN  \E off \in 0..(Len(hint) - 3) :
               /\ hint[off + 1] = digit
               /\ hint[off + 2] \in {"v", "V"}
               /\ hint[off + 3] = digit}

\* C19: the game-type hint decides the template exactly when it holds one
\* known squad-size token (8v8, 6v6, 5v5, in any case), whatever the
\* lineup; a hint with no known token or with conflicting tokens does not
\* decide, and the template is the one the lineup-based rules give.
C19_HintDecidesWhenUnambiguous ==
    pc = "rendered" =>
        LET known == KnownTokens(data.match.game_type)
        IN  IF Cardinality(known) = 1
            THEN view.homeCard.formationKey \in known
            ELSE view.homeCard.formationKey = detectFormation(view.homeLineup, <<>>)

\* C20: with no deciding hint the template is the five-slot one by
\* signature exactly when the set of started position codes equals
\* {CF, LM, RM, CB, GK}, the six-slot one by signature exactly when it
\* equals {LW, RW, CM, LB, RB, GK}, and for every other set it depends on
\* the number of started entries only: at most 5 five, 6 six, more eight.
C20_SignatureByEqualityElseCount ==
    (pc = "rendered" /\ KnownTokens(data.match.game_type) = {}) =>
        LET codes == StartedCodes(view.homeLineup)
            n == Len(startedEntries(view.homeLineup))
        IN  view.homeCard.formationKey =
               IF codes = FiveCodes THEN "five"
               ELSE IF codes = SixCodes THEN "six"
               ELSE IF n <= 5 THEN "five"
               ELSE IF n <= 6 THEN "six"
               ELSE "eight"

FirstOf(S) == IF S = {} THEN 0 ELSE Min(S)

\* The greedy reference, pass 1: after the slots 1..s, the entries used
\* and the entry bound to each slot (0 for none).
GreedyPass1(slots, started) ==
    LET g[s \in 0..Len(slots)] ==
            IF s = 0 THEN [used |-> {}, bind |-> <<>>]
            ELSE LET prev == g[s - 1]
                     m == FirstOf({e \in 1..Len(started) :
                                     e \notin prev.used /\ started[e].pos = slots[s].pos})
                 IN  [used |-> prev.used \cup ({m} \ {0}), bind |-> Append(prev.bind, m)]
    IN  g[Len(slots)]

\* The greedy reference, pass 2, over the result of pass 1.
GreedyPass2(slots, started) ==
    LET p1 == GreedyPass1(slots, started)
        g[s \in 0..Len(slots)] ==
            IF s = 0 THEN [used |-> p1.used, bind |-> <<>>]
            ELSE LET prev == g[s - 1]
                     m == IF p1.bind[s] # 0 THEN p1.bind[s]
                          ELSE FirstOf({e \in 1..Len(started) : e \notin prev.used})
                 IN  [used |-> prev.used \cup ({m} \ {0}), bind |-> Append(prev.bind, m)]
    IN  g[Len(slots)]

\* C21: the slot assignment is that of the two-pass greedy reference:
\* pass 1 binds to each slot, in template order, the first unused started
\* entry with the slot's position code; pass 2 binds to each slot still
\* empty, in template order, the first unused started entry of any code;
\* pass 2 changes no binding of pass 1.
C21_AssignmentIsTwoPassGreedy ==
    pc = "rendered" =>
        LET card == view.homeCard
            p1 == GreedyPass1(card.slots, card.started)
            p2 == GreedyPass2(card.slots, card.started)
        IN  /\ card.slotIndex = p2.bind
            /\ card.usedIndex = p2.used
            /\ \A s \in 1..Len(card.slots) :
                  p1.bind[s] # 0 => card.slotIndex[s] = p1.bind[s]

C21_Witness ==
    /\ pc = "rendered"
    /\ view.homeCard.formationKey = "five"
    /\ Len(view.homeCard.started) = 4
    /\ LET p1 == GreedyPass1(view.homeCard.slots, view.homeCard.started)
       IN  /\ p1.bind = <<3, 0, 0, 0, 1>>
           /\ view.homeCard.slotIndex = <<3, 2, 4, 0, 1>>

KINDS == {"goal", "yellow", "red"}

\* The minute data the timestamp map of a row gives for a kind.
MinutesFor(row, kind) ==
    getMinutes(getEventMap(row),
               CASE kind = "goal" -> <<"goal", "goals">>
                 [] kind = "yellow" -> <<"yellow", "yellow_card", "yellow_cards">>
                 [] OTHER -> <<"red", "red_card", "red_cards", "redcard", "redcards",
                               "straight_red">>)

\* The raw count of a row for a kind.
CountFor(row, kind) ==
    firstNonZero(row, CASE kind = "goal" -> <<"goals">>
                        [] kind = "yellow" -> <<"yellow_cards", "yellowCards">>
                        [] OTHER -> <<"red_cards", "redCards">>)

\* A timeline line without its key and rating.
Shape(line) ==
    IF MinuteBearing(line)
    THEN [kind |-> line.kind, name |-> line.name, minutes |-> line.minutes, count |-> 0]
    ELSE [kind |-> line.kind, name |-> line.name, minutes |-> <<>>, count |-> line.count]

\* The line the rule gives for a row and a kind, as a set of at most one.
ExpectedShapes(row, kind) ==
    IF MinutesFor(row, kind) # <<>>
    THEN {[kind |-> kind, name |-> safeName(row), minutes |-> MinutesFor(row, kind), count |-> 0]}
    ELSE IF CountFor(row, kind) > 0
    THEN {[kind |-> kind, name |-> safeName(row), minutes |-> <<>>, count |-> CountFor(row, kind)]}
    ELSE {}

\* The lines the rule gives, per row and kind.
ExpectedTable(rows) == [r \in 1..Len(rows) |-> [k \in KINDS |-> ExpectedShapes(rows[r], k)]]

ExpectedCount(table, shape) ==
    Cardinality({rk \in (DOMAIN table) \X KINDS : shape \in table[rk[1]][rk[2]]})

ActualCount(tl, shape) == Cardinality({i \in 1..Len(tl) : Shape(tl[i]) = shape})

ExpectedTotal(table) ==
    Cardinality({rk \in (DOMAIN table) \X KINDS : table[rk[1]][rk[2]] # {}})

\* C22: for each row and each kind the derived timeline holds at most one
\* line: one with the full minute list and no count when the timestamp map
\* gives minutes for the kind, else one count-only line with key 999 and
\* no minute list when the raw count is positive, else none; a map that
\* does not decode gives no minutes.  Up to 12 lines in all nothing is cut.
C22_OneLinePerRowAndKind ==
    (pc = "rendered" /\ ~Has(data.team_events, "home")) =>
        LET tl == view.homeEvents
            table == ExpectedTable(data.player_stats.home)
            total == ExpectedTotal(table)
        IN  /\ Len(tl) = IF total < EVENT_CAP THEN total ELSE EVENT_CAP
            /\ \A i \in 1..Len(tl) :
                  /\ ActualCount(tl, Shape(tl[i])) <= ExpectedCount(table, Shape(tl[i]))
                  /\ ~(MinuteBearing(tl[i]) /\ CountOnly(tl[i]))
                  /\ CountOnly(tl[i]) => tl[i].sortMinute = EVENT_SENTINEL
            /\ total <= EVENT_CAP =>
                  \A rk \in (DOMAIN table) \X KINDS : \A shape \in table[rk[1]][rk[2]] :
                     ActualCount(tl, shape) = ExpectedCount(table, shape)

C22_Witness ==
    /\ pc = "rendered"
    /\ ~Has(data.team_events, "home")
    /\ Len(data.player_stats.home) = 3
    /\ \E r \in 1..3 :
          /\ MinutesFor(data.player_stats.home[r], "goal") # <<>>
          /\ CountFor(data.player_stats.home[r], "goal") > 0
    /\ \E r \in 1..3 :
          /\ Has(data.player_stats.home[r], "event_timestamps")
          /\ data.player_stats.home[r].event_timestamps.enc = "garbage"
    /\ \E r \in 1..3 :
          /\ Has(data.player_stats.home[r], "goals")
          /\ ExpectedShapes(data.player_stats.home[r], "goal") = {}
    /\ Len(view.homeEvents) = 5

\* The rows of a side whose normalized name is that of the entry.
MatchingRows(rows, entry) ==
    {r \in 1..Len(rows) : normName(safeName(rows[r])) = normName(itemName(entry))}

\* The list the ratings are attached to: the provider's when it is not
\* empty, the derived one otherwise.
AnnotatedSource ==
    IF Has(data.team_events, "home") /\ data.team_events.home # <<>>
    THEN data.team_events.home
    ELSE buildEventLines(data.player_stats.home)

\* C23: after attachEventRatings every timeline entry whose normalized
\* name is that of a row of the same side carries the Rating Engine value
\* of such a row (the last one of that name), every entry whose normalized
\* name is that of no row carries null, and every entry is kept.
C23_MatchedEntriesRated ==
    pc = "rendered" =>
        LET tl == view.homeEvents
            rows == data.player_stats.home
        IN  /\ Len(tl) = Len(AnnotatedSource)
            /\ \A i \in 1..Len(tl) :
                  /\ tl[i].name = AnnotatedSource[i].name
                  /\ IF MatchingRows(rows, tl[i]) = {}
                     THEN tl[i].rating = <<>>
                     ELSE /\ tl[i].rating = <<playerRating10(rows[Max(MatchingRows(rows, tl[i]))])>>
                          /\ \E r \in MatchingRows(rows, tl[i]) :
                                tl[i].rating = <<playerRating10(rows[r])>>

C23_Witness ==
    /\ pc = "rendered"
    /\ Has(data.team_events, "home")
    /\ Len(data.team_events.home) = 2
    /\ Len(data.player_stats.home) = 1
    /\ data.team_events.home[1].name = "Ana"
    /\ data.team_events.home[2].name = "Cy"
    /\ data.player_stats.home[1].player_name = "A.na"
    /\ view.homeEvents[1].rating = <<7700>>
    /\ view.homeEvents[2].rating = <<>>

\* C24: a derivation pass leaves the payload as it was: no statistic row,
\* lineup element, provider event line or provider MVP record gains, loses
\* or changes a field; ratings, tie-break scores and merged fields are on
\* the copies in the derived view only.
C24_DerivationLeavesInputs ==
    [][(pc = "input" /\ pc' \in {"rendered", "failed"}) => data' = data]_vars

\* A pass over a payload that has a row, a lineup element, a line and a
\* record from the provider: the record is merged with its row and rated,
\* the line is rated and the element is placed, all on copies.
C24_Witness ==
    /\ pc = "rendered"
    /\ data.mvp # null
    /\ findLinked(allStatsOf(data), data.mvp) # <<>>
    /\ ~Has(data.mvp, "_rating")
    /\ Has(view.mvp, "_rating")
    /\ Has(data.mvp, "goals") /\ view.mvp["goals"] # data.mvp["goals"]
    /\ Len(apiEvents(data, "home")) = 1
    /\ ~Has(data.team_events.home[1], "rating")
    /\ view.homeEvents[1].rating # <<>>
    /\ data.match.home_lineup # <<>>
    /\ view.homeCard.usedIndex # {}
    /\ \A i \in 1..Len(allStatsOf(data)) : ~Has(allStatsOf(data)[i], "_tieBreak")

\* C25: no slot is a placeholder while a started entry is unassigned: when
\* the overflow list is not empty every slot is bound, and the overflow
\* list has max(0, started entries - template slots) entries.
C25_NoPlaceholderWithOverflow ==
    pc = "rendered" =>
        LET card == view.homeCard
            n == Len(card.started)
            k == Len(card.slots)
        IN  /\ card.overflowStarters # <<>> => \A s \in 1..k : card.slotIndex[s] # 0
            /\ Len(card.overflowStarters) = IF n > k THEN n - k ELSE 0
            /\ Cardinality({s \in 1..k : card.slotIndex[s] = 0}) = IF k > n THEN k - n ELSE 0

C25_Witness ==
    /\ pc = "rendered"
    /\ Len(view.homeCard.slots) = 5
    /\ Len(view.homeCard.started) = 7
    /\ Len(view.homeCard.overflowStarters) = 2
    /\ \A s \in 1..5 : view.homeCard.slotIndex[s] # 0

\* C26: every line derived from a statistic row carries, after the ratings
\* are attached against the same side's rows, the rating of the row it was
\* derived from, also when rows share a normalized name or have no name.
C26_DerivedLineKeepsOwnRating ==
    (pc = "rendered" /\ ~Has(data.team_events, "home")) =>
        view.homeEvents = buildEventLines(data.player_stats.home)

\* C27: over the cards of both sides at most one lineup slot carries the
\* MVP badge, and none does when the page has no MVP.
C27_AtMostOneSlotFlagged ==
    pc = "rendered" =>
        /\ Cardinality(view.homeMvpSlots) + Cardinality(view.awayMvpSlots) <= 1
        /\ (view.mvp = null => view.homeMvpSlots = {} /\ view.awayMvpSlots = {})

\* The slots bound to an entry of their own position code.
ExactSlots(card) ==
    {s \in 1..Len(card.slots) :
        card.slotIndex[s] # 0 /\ card.started[card.slotIndex[s]].pos = card.slots[s].pos}

\* The size of a largest exact matching of the slots from s on with the
\* started entries outside used: a slot is skipped or takes any free entry
\* of its code.
RECURSIVE MaxExactMatching(_, _, _)
MaxExactMatching(card, s, used) ==
    IF s > Len(card.slots) THEN 0
    ELSE LET free == {i \in 1..Len(card.started) :
                         i \notin used /\ card.started[i].pos = card.slots[s].pos}
         IN  Max({MaxExactMatching(card, s + 1, used)}
                 \cup {1 + MaxExactMatching(card, s + 1, used \cup {i}) : i \in free})

TemplateCodesDistinct ==
    \A key \in DOMAIN FORMATIONS :
        \A a, b \in 1..Len(FORMATIONS[key]) :
            a # b => FORMATIONS[key][a].pos # FORMATIONS[key][b].pos

\* C28: the position codes of a template are pairwise distinct, and in the
\* final assignment a slot is a placeholder or shows an entry of another
\* code only when no started entry carries the slot's code; the number of
\* exact matches is that of a largest exact matching of slots and entries.
C28_GreedyOptimalForExactMatches ==
    /\ TemplateCodesDistinct
    /\ pc = "rendered" =>
          LET card == view.homeCard
          IN  /\ \A s \in 1..Len(card.slots) :
                    s \notin ExactSlots(card) =>
                        \A i \in 1..Len(card.started) : card.started[i].pos # card.slots[s].pos
              /\ Cardinality(ExactSlots(card)) = MaxExactMatching(card, 1, {})

\* Six slots under a game-type label, two of them matched exactly and the
\* others showing entries of other codes.
C28_Witness ==
    /\ pc = "rendered"
    /\ view.homeCard.formationKey = "six"
    /\ Cardinality(ExactSlots(view.homeCard)) = 2
    /\ \E s \in 1..Len(view.homeCard.slots) :
          /\ view.homeCard.slotIndex[s] # 0
          /\ s \notin ExactSlots(view.homeCard)
    /\ Len(view.homeCard.started) = 6

\* C29: without a record from the provider and with at least one row, the
\* rating stored on the MVP is playerRating10 of the row the MVP was copied
\* from, and playerRating10 of the MVP record itself, which now carries the
\* stored rating, is the stored rating again.
C29_StoredRatingStable ==
    (pc = "rendered" /\ data.mvp = null /\ Len(allStatsOf(data)) > 0) =>
        LET rows == allStatsOf(data)
        IN  /\ \E i \in 1..Len(rows) :
                  /\ IsCopyOf(view.mvp, rows[i])
                  /\ view.mvp["_rating"] = playerRating10(rows[i])
            /\ playerRating10(view.mvp) = view.mvp["_rating"]

\* The MVP comes from a row without an explicit rating whose raw rating is
\* off a whole tenth, next to a row with an explicit rating: the record is
\* re-rated through its stored rating.
C29_Witness ==
    /\ pc = "rendered"
    /\ data.mvp = null
    /\ Len(allStatsOf(data)) = 2
    /\ \E i \in 1..2 : ProvidedRating(allStatsOf(data)[i]) # <<>>
    /\ \E i \in 1..2 :
          /\ IsCopyOf(view.mvp, allStatsOf(data)[i])
          /\ ProvidedRating(allStatsOf(data)[i]) = <<>>
          /\ RawRating(allStatsOf(data)[i]) % 100 # 0
    /\ ProvidedRating(view.mvp) = <<view.mvp["_rating"]>>

\* The rows of the last messages of the log, newest first.
NewestFirst(log) ==
    LET shown == IF Len(log) > FEED_CAP THEN FEED_CAP ELSE Len(log)
    IN  [i \in 1..shown |->
            feedRow(parseMessage(log[Len(log) - i + 1].raw), log[Len(log) - i + 1].now)]

\* C30: after any sequence of messages the feed has at most 12 rows, they
\* are the rows of the most recently received messages, newest first, and
\* the placeholder is gone once a message has been handled.
C30_FeedShowsLatestMessages ==
    pc = "listening" =>
        /\ Len(feed) <= FEED_CAP
        /\ (received # <<>> => \A i \in 1..Len(feed) : feed[i].cls # "empty")
        /\ (received # <<>> => feed = NewestFirst(received))

====
